---- MODULE Spec2Model ----
(***************************************************************************)
(* CVEWatch: the vulnerability client (desktop src/src/services/           *)
(* nvdService.js and extension src/src-extension/services/cveService.ts),  *)
(* its callers, and the bounded tree scanner, as state machines.           *)
(***************************************************************************)
EXTENDS Integers, Sequences, FiniteSets, TLC

\* ------------------------------------------------------------------------
\* Program constants
\* ------------------------------------------------------------------------
REQUEST_DELAY == 6500
REQUEST_TIMEOUT == 30000
CACHE_TTL == 5 * 60 * 1000
BATCH_SIZE == 5
MAX_CACHE_SIZE == 500
MAX_CVE_ID_LENGTH == 30
MAX_FILES_SCANNED == 10000
MAX_FOLDERS_SCANNED == 5000
DEFAULT_MAX_DEPTH == 5
RESULTS_PER_PRODUCT == 10
MIN_REFRESH_INTERVAL == 10000

Max2(a, b) == IF a >= b THEN a ELSE b
Min2(a, b) == IF a <= b THEN a ELSE b

\* ------------------------------------------------------------------------
\* Identifier texts.  A remote item carries an identifier number (idn); the
\* characters the service sees for it are IdText(idn).
\* ------------------------------------------------------------------------
Digits == {"0", "1", "2", "3", "4", "5", "6", "7", "8", "9"}

Rep(c, n) == [i \in 1..n |-> c]

IdText(idn) ==
  CASE idn = 1 -> <<"C","V","E","-","2","0","2","4","-","0","0","0","1">>
    [] idn = 2 -> <<"C","V","E","-","2","0","2","4","-","0","0","0","2">>
    [] idn = 3 -> <<"C","V","E","-","2","0","2","3","-","1","2","3","4","5">>
    \* exactly MAX_CVE_ID_LENGTH characters: accepted
    [] idn = 4 -> <<"C","V","E","-","1","9","9","9","-">> \o Rep("7", 21)
    \* one character more than MAX_CVE_ID_LENGTH: well formed but too long
    [] idn = 5 -> <<"C","V","E","-","1","9","9","9","-">> \o Rep("7", 22)
    \* three digits in the sequence number
    [] idn = 6 -> <<"C","V","E","-","2","0","2","4","-","0","0","1">>
    \* lower case prefix
    [] idn = 7 -> <<"c","v","e","-","2","0","2","4","-","0","0","0","1">>
    \* trailing text after the digits
    [] idn = 8 -> <<"C","V","E","-","2","0","2","4","-","0","0","0","1","x">>
    [] OTHER -> <<>>

\* /^CVE-\d{4}-\d{4,}$/.test(id)
MatchesCveId(s) ==
  /\ Len(s) >= 13
  /\ SubSeq(s, 1, 4) = <<"C", "V", "E", "-">>
  /\ \A i \in 5..8 : s[i] \in Digits
  /\ s[9] = "-"
  /\ \A i \in 10..Len(s) : s[i] \in Digits

\* ------------------------------------------------------------------------
\* Remote data.  An item of a response body, as the JSON decoder hands it
\* to the service; a body; an HTTP exchange.
\* ------------------------------------------------------------------------
GoodItem(idn, published, severity) ==
  [cve |-> "object", idKind |-> "string", idn |-> idn,
   published |-> published, severity |-> severity]

ItemA == GoodItem(1, 3, "HIGH")
ItemB == GoodItem(2, 2, "LOW")
ItemC == GoodItem(3, 1, "CRITICAL")
ItemLongest == GoodItem(4, 1, "LOW")
ItemTooLong == GoodItem(5, 1, "LOW")
ItemShortSeq == GoodItem(6, 1, "LOW")
ItemLowerCase == GoodItem(7, 1, "LOW")
ItemTrailing == GoodItem(8, 1, "LOW")
ItemNoId == [cve |-> "object", idKind |-> "missing", idn |-> 0,
             published |-> 1, severity |-> "LOW"]
ItemIdNotString == [cve |-> "object", idKind |-> "notstring", idn |-> 0,
                    published |-> 1, severity |-> "LOW"]
ItemNoCve == [cve |-> "missing", idKind |-> "missing", idn |-> 0,
              published |-> 1, severity |-> "LOW"]

BadItems == {ItemTooLong, ItemShortSeq, ItemLowerCase, ItemTrailing,
             ItemNoId, ItemIdNotString, ItemNoCve}

ObjectBody(items) == [kind |-> "object", vulns |-> "array", items |-> items]
\* an object without a vulnerabilities field (any JSON error document)
NoFieldBody == [kind |-> "object", vulns |-> "undefined", items |-> <<>>]
NotArrayBody == [kind |-> "object", vulns |-> "notarray", items |-> <<>>]
NotObjectBody == [kind |-> "notobject", vulns |-> "undefined", items |-> <<>>]

\* validateNVDResponse: the entry the iteration rejects, 0 when none
FirstBadIndex(items) ==
  LET bad(i) ==
        \/ items[i].cve # "object"
        \/ items[i].idKind # "string"
        \/ ~MatchesCveId(IdText(items[i].idn))
        \/ Len(IdText(items[i].idn)) > MAX_CVE_ID_LENGTH
      B == {i \in 1..Len(items) : bad(i)}
  IN IF B = {} THEN 0 ELSE CHOOSE i \in B : \A j \in B : i <= j

\* a validation that drops the entries it rejects and keeps the others
validateNVDResponseLenient(data) ==
  IF data.kind # "object"
  THEN [ok |-> FALSE, vulnerabilities |-> <<>>]
  ELSE IF data.vulns # "array"
  THEN IF data.vulns = "undefined"
       THEN [ok |-> TRUE, vulnerabilities |-> <<>>]
       ELSE [ok |-> FALSE, vulnerabilities |-> <<>>]
  ELSE [ok |-> TRUE,
        vulnerabilities |-> SelectSeq(data.items,
                                      LAMBDA v : FirstBadIndex(<<v>>) = 0)]

validateNVDResponse(data) ==
  IF data.kind # "object"
  THEN [ok |-> FALSE, vulnerabilities |-> <<>>]
  ELSE IF data.vulns # "array"
  THEN IF data.vulns = "undefined"
       THEN [ok |-> TRUE, vulnerabilities |-> <<>>]
       ELSE [ok |-> FALSE, vulnerabilities |-> <<>>]
  ELSE IF FirstBadIndex(data.items) # 0
  THEN [ok |-> FALSE, vulnerabilities |-> <<>>]
  ELSE [ok |-> TRUE, vulnerabilities |-> data.items]

\* parseCVE, the fields the client logic reads
parseCVE(item) ==
  [id |-> item.idn, published |-> item.published, severity |-> item.severity]

ParseAll(items) == [i \in 1..Len(items) |-> parseCVE(items[i])]

\* An HTTP exchange as the service observes it.
HttpOk(data) == [net |-> "ok", status |-> 200, json |-> TRUE, data |-> data]
HttpStatus(st) == [net |-> "ok", status |-> st, json |-> TRUE, data |-> NoFieldBody]
HttpBadJson == [net |-> "ok", status |-> 200, json |-> FALSE, data |-> NotObjectBody]
HttpTimeout == [net |-> "timeout", status |-> 0, json |-> FALSE, data |-> NotObjectBody]
HttpNetError == [net |-> "error", status |-> 0, json |-> FALSE, data |-> NotObjectBody]

Failure(kind) == [ok |-> FALSE, kind |-> kind, cves |-> <<>>]
Success(cves) == [ok |-> TRUE, kind |-> "none", cves |-> cves]

\* What one keyword fetch makes of an exchange: the desktop service checks
\* response.ok, the extension service only decodes the body.
DesktopOutcome(resp) ==
  IF resp.net = "timeout" THEN Failure("timeout")
  ELSE IF resp.net = "error" THEN Failure("network")
  ELSE IF ~(resp.status >= 200 /\ resp.status <= 299)
  THEN IF resp.status = 403 THEN Failure("ratelimited") ELSE Failure("apierror")
  ELSE IF ~resp.json THEN Failure("malformed")
  ELSE LET v == validateNVDResponse(resp.data)
       IN IF v.ok THEN Success(ParseAll(v.vulnerabilities)) ELSE Failure("validation")

ExtensionOutcome(resp) ==
  IF resp.net = "timeout" THEN Failure("timeout")
  ELSE IF resp.net = "error" THEN Failure("network")
  ELSE IF ~resp.json THEN Failure("malformed")
  ELSE LET v == validateNVDResponse(resp.data)
       IN IF v.ok THEN Success(ParseAll(v.vulnerabilities)) ELSE Failure("validation")

KeywordOutcome(h, resp) ==
  IF h = "desktop" THEN DesktopOutcome(resp) ELSE ExtensionOutcome(resp)

\* ------------------------------------------------------------------------
\* The cache: a JavaScript Map, kept as the sequence of its entries in
\* insertion order.
\* ------------------------------------------------------------------------
CacheKey(keyword, resultsPerProduct) == <<keyword, resultsPerProduct>>

MapIndex(m, key) ==
  LET I == {i \in 1..Len(m) : m[i].key = key}
  IN IF I = {} THEN 0 ELSE CHOOSE i \in I : TRUE

\* Map.prototype.set: an existing key keeps its place
MapSet(m, key, data, t) ==
  LET e == [key |-> key, data |-> data, timestamp |-> t]
      i == MapIndex(m, key)
  IN IF i = 0 THEN Append(m, e) ELSE [m EXCEPT ![i] = e]

\* getCached with an entry served up to and including the age CACHE_TTL
getCachedInclusive(m, key, t) ==
  LET i == MapIndex(m, key)
  IN IF i # 0 /\ t - m[i].timestamp <= CACHE_TTL
     THEN [hit |-> TRUE, data |-> m[i].data]
     ELSE [hit |-> FALSE, data |-> <<>>]

\* getCached with the freshness test the wrong way round
getCachedStaleOnly(m, key, t) ==
  LET i == MapIndex(m, key)
  IN IF i # 0 /\ t - m[i].timestamp > CACHE_TTL
     THEN [hit |-> TRUE, data |-> m[i].data]
     ELSE [hit |-> FALSE, data |-> <<>>]

getCached(m, key, t) ==
  LET i == MapIndex(m, key)
  IN IF i # 0 /\ t - m[i].timestamp < CACHE_TTL
     THEN [hit |-> TRUE, data |-> m[i].data]
     ELSE [hit |-> FALSE, data |-> <<>>]

DesktopSetCache(m, key, data, t) == MapSet(m, key, data, t)

ExtensionSetCache(m, key, data, t) ==
  LET entriesToRemove == Max2(1, MAX_CACHE_SIZE \div 10)
      n == Min2(entriesToRemove, Len(m))
      kept == IF Len(m) >= MAX_CACHE_SIZE THEN SubSeq(m, n + 1, Len(m)) ELSE m
  IN MapSet(kept, key, data, t)

setCache(h, m, key, data, t) ==
  IF h = "desktop" THEN DesktopSetCache(m, key, data, t)
  ELSE ExtensionSetCache(m, key, data, t)

\* ------------------------------------------------------------------------
\* Bounds of the model
\* ------------------------------------------------------------------------
\* top-level fetches that may be in progress at once (a cancelled one keeps
\* running beside its successor)
MaxCalls == 2
\* top-level fetches started in a run
MaxFetches == 2
\* keywords the tracked products search for
NumKeywords == 2
\* the clock stops here
MaxTime == CACHE_TTL + 3 * REQUEST_DELAY

CallIds == 1..MaxCalls
Keywords == 1..NumKeywords

\* ------------------------------------------------------------------------
\* Inputs: product lists and remote answers
\* ------------------------------------------------------------------------
Product(name, keyword) == [name |-> name, keyword |-> keyword]

\* product.keyword || product.name  (keyword 0: the product has none)
KeywordOf(p) == IF p.keyword # 0 THEN p.keyword ELSE p.name

\* n products named 1..n whose keywords cycle through the keywords
Cycle(n) == [i \in 1..n |-> Product(i, ((i - 1) % NumKeywords) + 1)]

ProductLists ==
  { <<>>,
    <<Product(1, 0), Product(2, 1)>>,
    Cycle(BATCH_SIZE + 1),
    Cycle(2 * BATCH_SIZE + 2) }

\* what the remote service may answer to a query
Responses ==
  { HttpOk(ObjectBody(<<>>)),
    HttpOk(ObjectBody(<<ItemA>>)),
    HttpOk(ObjectBody(<<ItemB, ItemA>>)),
    HttpOk(ObjectBody(<<ItemA, ItemNoId>>)),
    HttpStatus(403),
    HttpStatus(500),
    HttpTimeout }

VARIABLES
  host,          \* "desktop" (nvdService.js + CVEContext) or "extension"
  server,        \* what the remote service answers, per keyword
  now,           \* Date.now(), in milliseconds
  cache,         \* the module-level Map
  calls,         \* the fetchCVEsForProducts invocations in progress
  products,      \* preferences.products / the cveWatch.products setting
  cves,          \* the caller's vulnerability list
  isLoading,
  error,         \* the caller's error state ("none" when null)
  seenCVEIds,
  isFirstLoad,
  lastFetchTime,
  current,       \* abortControllerRef.current: the call it belongs to, 0 if none
  lastOk,        \* per cache key, when a fetch last succeeded
  done,          \* the fetchCVEsForProducts invocation that finished last
  mounted,       \* the CVEProvider component is mounted
  fetches,       \* top-level fetches started so far
  exchange,      \* the HTTP exchange one keyword fetch is given
  fetched,       \* what that keyword fetch handed to its caller
  filesScanned,
  foldersScanned,
  scanLimitReached,
  stack,         \* the scanDir invocations in progress, innermost last
  scanResult,    \* what the scan in progress or the last scan returned
  scans,         \* scans started so far
  dirsRead,      \* directories the scan in progress has listed
  lastRead,      \* the latest readdir: depth of the directory, counters then
  lastLoop,      \* the latest entry loop entered: depth, counters then
  depthCuts,     \* scanDir calls that returned at the depth check
  manifest,      \* the manifest file parseDependencyFile is given
  parsed,        \* what parseDependencyFile returned for it
  notifications, \* the stored notifications preference
  fsys,          \* what each selectable path is on disk
  store,         \* projectsFolder, scannedProjects, lastProjectsScan
  folderOps,     \* the folder handlers invoked so far, the scans running
  folderLog,     \* the last reply, the scans started, the paths resolved
  scanCounters,  \* filesScanned, foldersScanned, scanLimitReached per holder
  walks,         \* two scans that may run at the same time
  correlation,   \* the packages and records given to treeWithCVEs, its result
  record,        \* a remote item's references and matches, what parseCVE kept
  faults         \* directories and manifests that failed in the scans so far

clientVars == <<host, server, now, cache, calls, products, cves, isLoading,
                error, seenCVEIds, isFirstLoad, lastFetchTime, current,
                lastOk, done, mounted, fetches>>

keywordVars == <<exchange, fetched>>

scanVars == <<filesScanned, foldersScanned, scanLimitReached, stack,
              scanResult, scans, dirsRead, lastRead, lastLoop, depthCuts>>

parseVars == <<manifest, parsed>>

folderVars == <<fsys, store, folderOps, folderLog>>

walkVars == <<scanCounters, walks>>

auxVars == <<parseVars, notifications, folderVars, walkVars, correlation, record,
             faults>>

NoSlot == [st |-> "todo", cves |-> <<>>, kind |-> "none", remote |-> FALSE,
           start |-> 0, prevOk |-> -1]

FreeCall ==
  [pc |-> "free", aborted |-> FALSE, products |-> <<>>, batchStart |-> 0,
   slots |-> <<>>, allCVEs |-> <<>>, seenIds |-> {}, delayStart |-> 0,
   batches |-> 0, delays |-> 0, result |-> <<>>, notifications |-> TRUE]

\* ------------------------------------------------------------------------
\* fetchCVEsForProducts, from its loop head to the next await
\* ------------------------------------------------------------------------
LastOkOf(lo, key) == IF key \in DOMAIN lo THEN lo[key] ELSE -1

BatchRange(call) ==
  (call.batchStart + 1)..Min2(call.batchStart + BATCH_SIZE, Len(call.products))

\* fetchCVEsForKeyword up to its first await: a cache hit returns at once, a
\* miss issues the request (which an already aborted signal rejects unsent)
StartSlot(call, i, m, t, lo) ==
  LET key == CacheKey(KeywordOf(call.products[i]), RESULTS_PER_PRODUCT)
      g == getCached(m, key, t)
      base == [NoSlot EXCEPT !.start = t, !.prevOk = LastOkOf(lo, key)]
  IN IF g.hit THEN [base EXCEPT !.st = "hit", !.cves = g.data]
     ELSE IF call.aborted THEN [base EXCEPT !.st = "fail", !.kind = "timeout"]
     ELSE [base EXCEPT !.st = "pending", !.remote = TRUE]

\* products.slice(batchStart, batchStart + BATCH_SIZE).map(async ...)
BeginBatch(call, m, t, lo) ==
  [call EXCEPT !.pc = "batch",
               !.batches = @ + 1,
               !.slots = [i \in 1..Len(call.products) |->
                            IF i \in BatchRange(call)
                            THEN StartSlot(call, i, m, t, lo)
                            ELSE call.slots[i]]]

\* allCVEs.sort((a, b) => new Date(b.published) - new Date(a.published)):
\* a stable sort, newest first
InsertByPublished(sorted, r) ==
  LET before == {i \in 1..Len(sorted) : sorted[i].published >= r.published}
      n == Cardinality(before)
  IN SubSeq(sorted, 1, n) \o <<r>> \o SubSeq(sorted, n + 1, Len(sorted))

\* the records left in the order of the merge
Unsorted(recs) == recs

RECURSIVE SortByPublished(_)
SortByPublished(recs) ==
  IF recs = <<>> THEN <<>>
  ELSE InsertByPublished(SortByPublished(SubSeq(recs, 1, Len(recs) - 1)),
                         recs[Len(recs)])

\* the loop head without the delay between batches
LoopHeadNoDelay(h, call, m, t, lo) ==
  IF call.batchStart >= Len(call.products)
  THEN [call EXCEPT !.pc = "returned", !.result = SortByPublished(call.allCVEs)]
  ELSE IF h = "desktop" /\ call.aborted
  THEN [call EXCEPT !.pc = "threw"]
  ELSE BeginBatch(call, m, t, lo)

\* the for-loop head: the abort check, then the delay before every batch
\* but the first, then the batch; past the last batch the sorted list
LoopHead(h, call, m, t, lo) ==
  IF call.batchStart >= Len(call.products)
  THEN [call EXCEPT !.pc = "returned", !.result = SortByPublished(call.allCVEs)]
  ELSE IF h = "desktop" /\ call.aborted
  THEN [call EXCEPT !.pc = "threw"]
  ELSE IF call.batchStart > 0
  THEN [call EXCEPT !.pc = "delay", !.delayStart = t, !.delays = @ + 1]
  ELSE BeginBatch(call, m, t, lo)

\* the call itself: an empty product list returns [] at once
EnterCall(h, prods, m, t, lo) ==
  LET call == [FreeCall EXCEPT !.products = prods,
                               !.slots = [i \in 1..Len(prods) |-> NoSlot]]
  IN IF Len(prods) = 0
     THEN [call EXCEPT !.pc = "returned"]
     ELSE LoopHead(h, call, m, t, lo)

\* the merge of one product's records in which a later product takes over
\* a record already held
RECURSIVE DedupIntoLastWins(_, _, _)
DedupIntoLastWins(acc, recs, name) ==
  IF recs = <<>> THEN acc
  ELSE LET r == Head(recs)
           next == IF r.id \in acc.seen
                   THEN [acc EXCEPT !.all =
                           [i \in 1..Len(acc.all) |->
                              IF acc.all[i].id = r.id
                              THEN [acc.all[i] EXCEPT !.matchedProduct = name]
                              ELSE acc.all[i]]]
                   ELSE [all |-> Append(acc.all,
                                   [id |-> r.id, published |-> r.published,
                                    severity |-> r.severity,
                                    matchedProduct |-> name]),
                         seen |-> acc.seen \cup {r.id}]
       IN DedupIntoLastWins(next, Tail(recs), name)

\* cves.forEach(cve => { if (!seenIds.has(cve.id)) ... }) for one product
RECURSIVE DedupInto(_, _, _)
DedupInto(acc, recs, name) ==
  IF recs = <<>> THEN acc
  ELSE LET r == Head(recs)
           next == IF r.id \in acc.seen THEN acc
                   ELSE [all |-> Append(acc.all,
                                   [id |-> r.id, published |-> r.published,
                                    severity |-> r.severity,
                                    matchedProduct |-> name]),
                         seen |-> acc.seen \cup {r.id}]
       IN DedupInto(next, Tail(recs), name)

\* for (const { product, cves } of results): in the order of the batch
RECURSIVE MergeFrom(_, _, _, _)
MergeFrom(call, i, last, acc) ==
  IF i > last THEN acc
  ELSE MergeFrom(call, i + 1, last,
                 DedupInto(acc, call.slots[i].cves, call.products[i].name))

\* the continuation of a Promise.all whose promises reject on failure: one
\* failed fetch fails the call
AfterBatchFailFast(h, call, m, t, lo) ==
  LET last == Min2(call.batchStart + BATCH_SIZE, Len(call.products))
      acc == MergeFrom(call, call.batchStart + 1, last,
                       [all |-> call.allCVEs, seen |-> call.seenIds])
      merged == [call EXCEPT !.allCVEs = acc.all, !.seenIds = acc.seen,
                             !.batchStart = @ + BATCH_SIZE]
  IN IF \E i \in (call.batchStart + 1)..last : call.slots[i].st = "fail"
     THEN [call EXCEPT !.pc = "threw"]
     ELSE LoopHead(h, merged, m, t, lo)

\* the continuation of await Promise.all(batchPromises), up to the next await
AfterBatch(h, call, m, t, lo) ==
  LET acc == MergeFrom(call, call.batchStart + 1,
                       Min2(call.batchStart + BATCH_SIZE, Len(call.products)),
                       [all |-> call.allCVEs, seen |-> call.seenIds])
      merged == [call EXCEPT !.allCVEs = acc.all, !.seenIds = acc.seen,
                             !.batchStart = @ + BATCH_SIZE]
  IN LoopHead(h, merged, m, t, lo)

Pending(call) == {i \in 1..Len(call.slots) : call.slots[i].st = "pending"}

\* AbortController.abort(): the signal is set and every fetch in flight
\* rejects with an AbortError, reported as 'Request timeout for <keyword>'
AbortCall(call) ==
  [call EXCEPT !.aborted = TRUE,
               !.slots = [i \in 1..Len(call.slots) |->
                            IF call.slots[i].st = "pending"
                            THEN [call.slots[i] EXCEPT !.st = "fail",
                                                       !.kind = "timeout"]
                            ELSE call.slots[i]]]

\* ------------------------------------------------------------------------
\* The callers' state, and the promise continuations that run as soon as a
\* call has nothing left in flight (microtasks: they run before the next
\* response, timer or user event is handled)
\* ------------------------------------------------------------------------
IdsOf(recs) == {recs[i].id : i \in 1..Len(recs)}

CallerState ==
  [calls |-> calls, cves |-> cves, isLoading |-> isLoading, error |-> error,
   seenCVEIds |-> seenCVEIds, isFirstLoad |-> isFirstLoad,
   current |-> current, done |-> done, notifications |-> notifications]

Apply(st) ==
  /\ calls' = st.calls
  /\ cves' = st.cves
  /\ isLoading' = st.isLoading
  /\ error' = st.error
  /\ seenCVEIds' = st.seenCVEIds
  /\ isFirstLoad' = st.isFirstLoad
  /\ current' = st.current
  /\ done' = st.done

Retire(st, c, applied, notified) ==
  [st EXCEPT !.calls[c] = FreeCall,
             !.current = IF @ = c THEN 0 ELSE @,
             !.done = [call |-> st.calls[c], applied |-> applied,
                       notified |-> notified]]

\* results.filter(cve => (cve.severity === 'CRITICAL' || cve.severity ===
\* 'HIGH') && !seenCVEIds.has(cve.id)).slice(0, 3)
RECURSIVE NewCritical(_, _)
NewCritical(recs, seen) ==
  IF recs = <<>> THEN <<>>
  ELSE IF Head(recs).severity \in {"CRITICAL", "HIGH"} /\ Head(recs).id \notin seen
       THEN <<Head(recs)>> \o NewCritical(Tail(recs), seen)
       ELSE NewCritical(Tail(recs), seen)

FirstThree(recs) == SubSeq(recs, 1, Min2(Len(recs), 3))

\* the notifications the desktop shows: the renderer sends one per new
\* record unless it is the first load or the preference it captured is
\* off; the main process drops them when the stored preference is false
DesktopNotified(st, call) ==
  IF ~st.isFirstLoad /\ call.notifications /\ st.notifications
  THEN FirstThree(NewCritical(call.result, st.seenCVEIds))
  ELSE <<>>

\* the warnings the extension shows: config is the configuration object
\* refresh() obtained before the await
ExtensionNotified(st, call) ==
  IF call.notifications /\ ~st.isFirstLoad
  THEN FirstThree(NewCritical(call.result, st.seenCVEIds))
  ELSE <<>>

\* the continuation without the check of the signal after the await
DesktopContinueUnchecked(st, c) ==
  LET call == st.calls[c]
  IN IF call.pc = "returned"
     THEN Retire([st EXCEPT !.seenCVEIds = @ \cup IdsOf(call.result),
                            !.isFirstLoad = FALSE,
                            !.cves = call.result,
                            !.isLoading = FALSE], c, TRUE,
                 DesktopNotified(st, call))
     ELSE Retire([st EXCEPT !.isLoading = IF call.aborted THEN @ ELSE FALSE],
                 c, FALSE, <<>>)

\* CVEProvider.fetchCVEs after await fetchCVEsForProducts(...)
DesktopContinue(st, c) ==
  LET call == st.calls[c]
  IN IF call.pc = "returned" /\ ~call.aborted
     THEN Retire([st EXCEPT !.seenCVEIds = @ \cup IdsOf(call.result),
                            !.isFirstLoad = FALSE,
                            !.cves = call.result,
                            !.isLoading = FALSE], c, TRUE,
                 DesktopNotified(st, call))
     ELSE IF call.pc = "returned"
     THEN Retire(st, c, FALSE, <<>>)
     \* catch: 'Fetch aborted' is dropped; finally: only if not aborted
     ELSE Retire([st EXCEPT !.isLoading = IF call.aborted THEN @ ELSE FALSE],
                 c, FALSE, <<>>)

\* the continuation of refresh without the marking of the ids as seen
ExtensionContinueForgets(st, c) ==
  LET call == st.calls[c]
  IN Retire([st EXCEPT !.cves = call.result,
                       !.isFirstLoad = FALSE,
                       !.isLoading = FALSE], c, TRUE,
            ExtensionNotified(st, call))

\* CVEWatchViewProvider.refresh after await fetchCVEsForProducts(products)
ExtensionContinue(st, c) ==
  LET call == st.calls[c]
  IN Retire([st EXCEPT !.cves = call.result,
                       !.seenCVEIds = @ \cup IdsOf(call.result),
                       !.isFirstLoad = FALSE,
                       !.isLoading = FALSE], c, TRUE,
            ExtensionNotified(st, call))

Continue(h, st, c) ==
  IF h = "desktop" THEN DesktopContinue(st, c) ELSE ExtensionContinue(st, c)

\* run call c up to its next await on a response or a timer
Settle(h, st, c, m, t, lo) ==
  LET call == st.calls[c]
  IN IF call.pc = "batch" /\ Pending(call) = {}
     THEN LET st2 == [st EXCEPT !.calls[c] = AfterBatch(h, call, m, t, lo)]
          IN IF st2.calls[c].pc \in {"returned", "threw"}
             THEN Continue(h, st2, c)
             ELSE st2
     ELSE IF call.pc \in {"returned", "threw"}
     THEN Continue(h, st, c)
     ELSE st

\* ------------------------------------------------------------------------
\* The client as a state machine
\* ------------------------------------------------------------------------
\* no single keyword fetch under study, no scan started
NoExchange == [net |-> "none", status |-> 0, json |-> FALSE, data |-> NotObjectBody]
NotFetched == [st |-> "idle", ok |-> FALSE, kind |-> "none", cves |-> <<>>]

KeywordIdle ==
  /\ exchange = NoExchange
  /\ fetched = NotFetched

NoRead == [depth |-> 0, folders |-> 0, files |-> 0]
NoResult == [st |-> "none", tree |-> <<>>, totalProjects |-> 0, totalPackages |-> 0]

ScanIdle ==
  /\ filesScanned = 0
  /\ foldersScanned = 0
  /\ scanLimitReached = FALSE
  /\ stack = <<>>
  /\ scanResult = NoResult
  /\ scans = 0
  /\ dirsRead = 0
  /\ lastRead = NoRead
  /\ lastLoop = NoRead
  /\ depthCuts = 0

NoManifest == [kind |-> "none", dependencies |-> <<>>, devDependencies |-> <<>>]
NotParsed == [st |-> "none", failed |-> FALSE, dependencies |-> <<>>]

ParseIdle ==
  /\ manifest = NoManifest
  /\ parsed = NotParsed

\* path.sep-separated components of the paths the folder dialog can return
Etc == <<"etc">>
Work == <<"home", "me", "work">>
Code == <<"Users", "me", "code">>
FolderPaths == {Etc, Work, Code}

NoPath == <<"">>
EmptyStore == [projectsFolder |-> NoPath, scannedProjects |-> NoPath,
               lastProjectsScan |-> 0]
NoReply == [op |-> 0, kind |-> "none", error |-> "none"]

FolderIdle ==
  /\ fsys = [q \in FolderPaths |-> "dir"]
  /\ store = EmptyStore
  /\ folderOps = [started |-> 0, changes |-> 0, running |-> {}]
  /\ folderLog = [reply |-> NoReply, scans |-> {}, chosen |-> {}]

NoCounters == [filesScanned |-> 0, foldersScanned |-> 0,
               scanLimitReached |-> FALSE]
NoWalk == [pc |-> "idle", depth |-> 0, dirs |-> 0, own |-> NoCounters]

\* holder 0 is the DependencyScanner instance of the extension, holders 1
\* and 2 the local variables of the two scanProjectsFolder calls
WalkIdle ==
  /\ scanCounters = [holder \in 0..2 |-> NoCounters]
  /\ walks = [i \in 1..2 |-> NoWalk]

NoRecord == [st |-> "none", refs |-> <<>>, cpeMatch |-> <<>>, references |-> <<>>,
             affectedProducts |-> <<>>]

NoFaults == [dirs |-> 0, files |-> 0]

NoCorrelation == [st |-> "none", packages |-> <<>>, cves |-> <<>>, attached |-> <<>>]

AuxIdle ==
  /\ ParseIdle
  /\ notifications = TRUE
  /\ FolderIdle
  /\ WalkIdle
  /\ correlation = NoCorrelation
  /\ record = NoRecord
  /\ faults = NoFaults

\* the client before anything is fetched
ClientQuiet ==
  /\ now = 0
  /\ cache = <<>>
  /\ calls = [c \in CallIds |-> FreeCall]
  /\ products = <<>>
  /\ cves = <<>>
  /\ isLoading = FALSE
  /\ error = "none"
  /\ seenCVEIds = {}
  /\ isFirstLoad = TRUE
  /\ lastFetchTime = 0
  /\ current = 0
  /\ lastOk = <<>>
  /\ done = [call |-> FreeCall, applied |-> FALSE, notified |-> <<>>]
  /\ mounted = TRUE
  /\ fetches = 0

ClientInit ==
  /\ host \in {"desktop", "extension"}
  /\ server \in [Keywords -> Responses]
  /\ ClientQuiet
  /\ KeywordIdle
  /\ ScanIdle
  /\ AuxIdle

FreeIn(cs) == {c \in CallIds : cs[c].pc = "free"}
LowestFreeIn(cs) == CHOOSE c \in FreeIn(cs) : \A d \in FreeIn(cs) : c <= d

AllPending == UNION {{<<c, i>> : i \in Pending(calls[c])} : c \in CallIds}

\* ---- the remote service answers one request in flight ----
Respond(c, i) ==
  /\ calls[c].pc = "batch"
  /\ i \in Pending(calls[c])
  /\ LET keyword == KeywordOf(calls[c].products[i])
         o == KeywordOutcome(host, server[keyword])
         key == CacheKey(keyword, RESULTS_PER_PRODUCT)
         m == IF o.ok THEN setCache(host, cache, key, o.cves, now) ELSE cache
         lo == IF o.ok THEN (key :> now) @@ lastOk ELSE lastOk
         slot == IF o.ok
                 THEN [calls[c].slots[i] EXCEPT !.st = "ok", !.cves = o.cves]
                 ELSE [calls[c].slots[i] EXCEPT !.st = "fail", !.kind = o.kind]
         st == [CallerState EXCEPT !.calls[c].slots[i] = slot]
     IN /\ cache' = m
        /\ lastOk' = lo
        /\ Apply(Settle(host, st, c, m, now, lo))
  /\ UNCHANGED <<auxVars, keywordVars, scanVars, host, server, now, products, lastFetchTime, mounted, fetches>>

\* ---- the inter-batch timer fires: the next batch starts ----
DelayDone(c) ==
  /\ calls[c].pc = "delay"
  /\ now - calls[c].delayStart >= REQUEST_DELAY
  /\ LET st == [CallerState EXCEPT
                  !.calls[c] = BeginBatch(calls[c], cache, now, lastOk)]
     IN Apply(Settle(host, st, c, cache, now, lastOk))
  /\ UNCHANGED <<auxVars, keywordVars, scanVars, host, server, now, cache, products, lastFetchTime, lastOk,
                 mounted, fetches>>

\* ---- time passes: up to the next timer, or a long idle period ----
TimerDue == \E c \in CallIds : /\ calls[c].pc = "delay"
                               /\ now - calls[c].delayStart >= REQUEST_DELAY

TickDelay ==
  /\ \E c \in CallIds : calls[c].pc = "delay"
  /\ ~TimerDue
  /\ now + REQUEST_DELAY <= MaxTime
  /\ \A p \in AllPending :
        now + REQUEST_DELAY - calls[p[1]].slots[p[2]].start <= REQUEST_TIMEOUT
  /\ now' = now + REQUEST_DELAY
  /\ UNCHANGED <<auxVars, keywordVars, scanVars, host, server, cache, calls, products, cves, isLoading, error,
                 seenCVEIds, isFirstLoad, lastFetchTime, current, lastOk, done,
                 mounted, fetches>>

TickIdle ==
  /\ \A c \in CallIds : calls[c].pc = "free"
  /\ now + CACHE_TTL <= MaxTime
  /\ now' = now + CACHE_TTL
  /\ UNCHANGED <<auxVars, keywordVars, scanVars, host, server, cache, calls, products, cves, isLoading, error,
                 seenCVEIds, isFirstLoad, lastFetchTime, current, lastOk, done,
                 mounted, fetches>>

\* ------------------------------------------------------------------------
\* The desktop caller: CVEProvider.fetchCVEs(bypassRateLimit), run with
\* preferences.products = prods up to its await (and past it when the call
\* has nothing to wait for)
\* ------------------------------------------------------------------------
RateLimited(bypassRateLimit) ==
  /\ ~bypassRateLimit
  /\ ~isFirstLoad
  /\ now - lastFetchTime < MIN_REFRESH_INTERVAL

\* a fetchCVEs that leaves the controller it holds alone
AbortNothing(st) == st

\* abortControllerRef.current.abort(), when a controller is held
AbortCurrent(st) ==
  IF st.current # 0 /\ st.calls[st.current].pc # "free"
  THEN Settle(host, [st EXCEPT !.calls[st.current] = AbortCall(@)],
              st.current, cache, now, lastOk)
  ELSE st

\* a start that leaves the loading flag alone when no product is tracked
DesktopStartKeepsLoading(st, prods) ==
  LET st1 == AbortCurrent(st)
      c == LowestFreeIn(st1.calls)
  IN IF Len(prods) = 0
     THEN [st1 EXCEPT !.cves = <<>>]
     ELSE Settle(host,
                 [st1 EXCEPT !.calls[c] =
                               [EnterCall(host, prods, cache, now, lastOk)
                                  EXCEPT !.notifications = st.notifications],
                             !.current = c,
                             !.isLoading = TRUE,
                             !.error = "none"],
                 c, cache, now, lastOk)

DesktopStart(st, prods) ==
  LET st1 == AbortCurrent(st)
      c == LowestFreeIn(st1.calls)
  IN IF Len(prods) = 0
     THEN [st1 EXCEPT !.cves = <<>>, !.isLoading = FALSE]
     ELSE Settle(host,
                 [st1 EXCEPT !.calls[c] =
                               [EnterCall(host, prods, cache, now, lastOk)
                                  EXCEPT !.notifications = st.notifications],
                             !.current = c,
                             !.isLoading = TRUE,
                             !.error = "none"],
                 c, cache, now, lastOk)

DesktopFetchCVEs(bypassRateLimit, prods) ==
  /\ mounted
  /\ fetches < MaxFetches
  /\ fetches' = fetches + 1
  /\ IF RateLimited(bypassRateLimit)
     THEN UNCHANGED <<calls, cves, isLoading, error, seenCVEIds, isFirstLoad,
                      current, done, lastFetchTime>>
     ELSE /\ Len(prods) # 0 => FreeIn(AbortCurrent(CallerState).calls) # {}
          /\ lastFetchTime' = now
          /\ Apply(DesktopStart(CallerState, prods))

\* manual refresh: refresh() -> fetchCVEs()
DesktopRefresh ==
  /\ host = "desktop"
  /\ DesktopFetchCVEs(FALSE, products)
  /\ UNCHANGED <<auxVars, keywordVars, scanVars, host, server, now, cache, products, lastOk, mounted>>

\* the polling interval fires: fetchCVEs(true)
DesktopPoll ==
  /\ host = "desktop"
  /\ DesktopFetchCVEs(TRUE, products)
  /\ UNCHANGED <<auxVars, keywordVars, scanVars, host, server, now, cache, products, lastOk, mounted>>

\* preferences.products changes; the effect runs fetchCVEs()
DesktopChangeProducts(prods) ==
  /\ host = "desktop"
  /\ prods # products
  /\ products' = prods
  /\ DesktopFetchCVEs(FALSE, prods)
  /\ UNCHANGED <<auxVars, keywordVars, scanVars, host, server, now, cache, lastOk, mounted>>

\* the provider unmounts: the effect cleanup aborts the controller it holds
DesktopUnmount ==
  /\ host = "desktop"
  /\ mounted
  /\ mounted' = FALSE
  /\ Apply(AbortCurrent(CallerState))
  /\ UNCHANGED <<auxVars, keywordVars, scanVars, host, server, now, cache, products, lastFetchTime, lastOk,
                 fetches>>

\* ------------------------------------------------------------------------
\* The extension caller: CVEWatchViewProvider.refresh()
\* ------------------------------------------------------------------------
ExtensionStart(st, prods) ==
  LET c == LowestFreeIn(st.calls)
  IN IF st.isLoading THEN st
     ELSE IF Len(prods) = 0 THEN [st EXCEPT !.cves = <<>>]
     ELSE Settle(host,
                 [st EXCEPT !.calls[c] =
                              [EnterCall(host, prods, cache, now, lastOk)
                                 EXCEPT !.notifications = st.notifications],
                            !.current = c,
                            !.isLoading = TRUE],
                 c, cache, now, lastOk)

\* the refresh command, the poll timer, a webview message
ExtensionRefresh ==
  /\ host = "extension"
  /\ fetches < MaxFetches
  /\ fetches' = fetches + 1
  /\ Apply(ExtensionStart(CallerState, products))
  /\ UNCHANGED <<auxVars, keywordVars, scanVars, host, server, now, cache, products, lastFetchTime, lastOk,
                 mounted>>

\* _addProduct / _removeProduct: the setting is written, then refresh()
ExtensionChangeProducts(prods) ==
  /\ host = "extension"
  /\ prods # products
  /\ products' = prods
  /\ fetches < MaxFetches
  /\ fetches' = fetches + 1
  /\ Apply(ExtensionStart(CallerState, prods))
  /\ UNCHANGED <<auxVars, keywordVars, scanVars, host, server, now, cache, lastFetchTime, lastOk, mounted>>

ClientNext ==
  \/ \E c \in CallIds : \E i \in Pending(calls[c]) : Respond(c, i)
  \/ \E c \in CallIds : DelayDone(c)
  \/ TickDelay
  \/ TickIdle
  \/ DesktopRefresh
  \/ DesktopPoll
  \/ \E prods \in ProductLists : DesktopChangeProducts(prods)
  \/ DesktopUnmount
  \/ ExtensionRefresh
  \/ \E prods \in ProductLists : ExtensionChangeProducts(prods)

vars == <<clientVars, keywordVars, scanVars, auxVars>>

Spec == ClientInit /\ [][ClientNext]_vars

\* ------------------------------------------------------------------------
\* One keyword fetch by itself: fetchCVEsForKeyword(keyword, 10) given the
\* exchange the remote service produces for it
\* ------------------------------------------------------------------------
\* entries in a response body
MaxItems == 2
\* keyword fetches in a run of the cache
MaxStores == 560

ItemPool == {ItemA, ItemB, ItemLongest} \cup BadItems

Bodies ==
  {ObjectBody(items) : items \in UNION {[1..n -> ItemPool] : n \in 0..MaxItems}}
    \cup {NoFieldBody, NotArrayBody, NotObjectBody}

Exchanges ==
  {HttpOk(b) : b \in Bodies}
    \cup {HttpBadJson, HttpStatus(403), HttpStatus(500), HttpTimeout, HttpNetError}

\* the whole of fetchCVEsForKeyword: the cache lookup, the request, the
\* validation, the transformation, the cache write
KeywordFetch(keyword) ==
  LET key == CacheKey(keyword, RESULTS_PER_PRODUCT)
      g == getCached(cache, key, now)
      o == KeywordOutcome(host, exchange)
  IN IF g.hit
     THEN /\ fetched' = [st |-> "done", ok |-> TRUE, kind |-> "none", cves |-> g.data]
          /\ UNCHANGED <<cache, lastOk>>
     ELSE /\ fetched' = [st |-> "done", ok |-> o.ok, kind |-> o.kind, cves |-> o.cves]
          /\ cache' = IF o.ok THEN setCache(host, cache, key, o.cves, now) ELSE cache
          /\ lastOk' = IF o.ok THEN (key :> now) @@ lastOk ELSE lastOk

KeywordInit ==
  /\ host \in {"desktop", "extension"}
  /\ server = [k \in Keywords |-> HttpOk(ObjectBody(<<>>))]
  /\ ClientQuiet
  /\ exchange \in Exchanges
  /\ fetched = NotFetched
  /\ ScanIdle
  /\ AuxIdle

FetchCVEsForKeyword(keyword) ==
  /\ fetched.st = "idle"
  /\ KeywordFetch(keyword)
  /\ UNCHANGED <<auxVars, scanVars, host, server, now, calls, products, cves, isLoading,
                 error, seenCVEIds, isFirstLoad, lastFetchTime, current, done,
                 mounted, fetches, exchange>>

KeywordNext == \E keyword \in Keywords : FetchCVEsForKeyword(keyword)

KeywordSpec == KeywordInit /\ [][KeywordNext]_vars

\* ------------------------------------------------------------------------
\* The cache under a long run of keyword fetches that all succeed
\* ------------------------------------------------------------------------
CacheInit ==
  /\ host \in {"desktop", "extension"}
  /\ server = [k \in Keywords |-> HttpOk(ObjectBody(<<>>))]
  /\ ClientQuiet
  /\ exchange = HttpOk(ObjectBody(<<ItemA>>))
  /\ fetched = NotFetched
  /\ ScanIdle
  /\ AuxIdle

\* a keyword not fetched before (fetches counts the keywords fetched so far)
FetchNewKeyword ==
  /\ fetches < MaxStores
  /\ fetches' = fetches + 1
  /\ KeywordFetch(fetches + 1)
  /\ UNCHANGED <<auxVars, scanVars, host, server, now, calls, products, cves, isLoading,
                 error, seenCVEIds, isFirstLoad, lastFetchTime, current, done,
                 mounted, exchange>>

\* a keyword fetched before: the one whose entry is the oldest or the newest
FetchKnownKeyword(i) ==
  /\ cache # <<>>
  /\ i \in {1, Len(cache)}
  /\ KeywordFetch(cache[i].key[1])
  /\ UNCHANGED <<auxVars, scanVars, host, server, now, calls, products, cves, isLoading,
                 error, seenCVEIds, isFirstLoad, lastFetchTime, current, done,
                 mounted, fetches, exchange>>

CacheNext ==
  \/ FetchNewKeyword
  \/ \E i \in 1..Len(cache) : FetchKnownKeyword(i)

CacheSpec == CacheInit /\ [][CacheNext]_vars

\* ------------------------------------------------------------------------
\* The tree scanner: scanProjectsFolder (main-process/main.js) and
\* DependencyScanner.scanWorkspace (src-extension).  The directory tree is
\* an input, disclosed one readdir at a time.
\* ------------------------------------------------------------------------
\* directories with entries that one scan may list
MaxDirs == 7
\* scans in a run
MaxScans == 2

\* What readdir returns: plain counts the entries that are neither a
\* recognized manifest nor a directory to descend into (other files, skipped
\* and hidden directories); manifests gives, per manifest file, the number
\* of packages parseDependencyFile finds in it; hollow counts the
\* subdirectories that hold nothing, which sort before the dirs others.
Listing(plain, manifests, hollow, dirs) ==
  [readable |-> TRUE, plain |-> plain, manifests |-> manifests,
   hollow |-> hollow, dirs |-> dirs]

Unreadable ==
  [readable |-> FALSE, plain |-> 0, manifests |-> <<>>, hollow |-> 0, dirs |-> 0]

EntryCount(l) == l.plain + Len(l.manifests) + l.hollow + l.dirs

Listings ==
  { Unreadable,
    Listing(1, <<>>, 0, 0),
    Listing(0, <<2>>, 0, 0),
    Listing(0, <<1>>, 0, 1),
    Listing(0, <<>>, 0, 2),
    Listing(MAX_FILES_SCANNED - 2, <<>>, 0, 1),
    Listing(0, <<1>>, MAX_FOLDERS_SCANNED - 1, 1) }

\* depth > maxDepth, with a test that lets one level more through
TooDeepByOne(depth, maxDepth) == depth > maxDepth + 1

\* if (depth > maxDepth) return null
TooDeep(depth, maxDepth) == depth > maxDepth

\* a quota test that never stops the scan
OverQuotaNever(count, quota) == FALSE

\* if (foldersScanned > MAX_FOLDERS_SCANNED) / (filesScanned > MAX_FILES_SCANNED)
OverQuota(count, quota) == count > quota

\* scanDir from its call to its await on readdir: null at once (ret), or
\* the directory is counted and about to be listed
EnterScanDir(depth, folders, limit) ==
  IF TooDeep(depth, DEFAULT_MAX_DEPTH)
  THEN [ret |-> TRUE, cut |-> 1, folders |-> folders, limit |-> limit]
  ELSE IF OverQuota(folders + 1, MAX_FOLDERS_SCANNED)
  THEN [ret |-> TRUE, cut |-> 0, folders |-> folders + 1, limit |-> TRUE]
  ELSE [ret |-> FALSE, cut |-> 0, folders |-> folders + 1, limit |-> limit]

ReadingFrame(depth) ==
  [st |-> "reading", depth |-> depth, hollow |-> 0, dirs |-> 0,
   manifests |-> <<>>, dependencyFiles |-> <<>>, children |-> <<>>]

RECURSIVE SumSeq(_)
SumSeq(q) == IF q = <<>> THEN 0 ELSE Head(q) + SumSeq(Tail(q))

\* the returned node with totals that leave the children out
NodeOfOwnOnly(frame) ==
  IF Len(frame.dependencyFiles) = 0 /\ Len(frame.children) = 0
  THEN <<>>
  ELSE <<[depth |-> frame.depth,
          dependencyFiles |-> frame.dependencyFiles,
          children |-> frame.children,
          totalPackages |-> SumSeq(frame.dependencyFiles),
          totalProjects |-> IF Len(frame.dependencyFiles) > 0 THEN 1 ELSE 0,
          isProject |-> Len(frame.dependencyFiles) > 0]>>

\* the returned node without the pruning of folders that hold nothing
NodeOfUnpruned(frame) ==
  LET childPackages == SumSeq([i \in 1..Len(frame.children) |->
                                 frame.children[i].totalPackages])
      childProjects == SumSeq([i \in 1..Len(frame.children) |->
                                 frame.children[i].totalProjects])
  IN <<[depth |-> frame.depth,
        dependencyFiles |-> frame.dependencyFiles,
        children |-> frame.children,
        totalPackages |-> SumSeq(frame.dependencyFiles) + childPackages,
        totalProjects |-> (IF Len(frame.dependencyFiles) > 0 THEN 1 ELSE 0)
                            + childProjects,
        isProject |-> Len(frame.dependencyFiles) > 0]>>

\* the node scanDir returns after its loop: none (null) when the folder has
\* neither a manifest nor a child node
NodeOf(frame) ==
  LET localPackages == SumSeq(frame.dependencyFiles)
      childPackages == SumSeq([i \in 1..Len(frame.children) |->
                                 frame.children[i].totalPackages])
      isProject == Len(frame.dependencyFiles) > 0
      childProjects == SumSeq([i \in 1..Len(frame.children) |->
                                 frame.children[i].totalProjects])
  IN IF Len(frame.dependencyFiles) = 0 /\ Len(frame.children) = 0
     THEN <<>>
     ELSE <<[depth |-> frame.depth,
             dependencyFiles |-> frame.dependencyFiles,
             children |-> frame.children,
             totalPackages |-> localPackages + childPackages,
             totalProjects |-> (IF isProject THEN 1 ELSE 0) + childProjects,
             isProject |-> isProject]>>

\* the innermost scanDir returns value (<<>> for null) to the frames below:
\* to its parent's loop (if (childNode) children.push(childNode)), or to
\* scanProjectsFolder / scanWorkspace, which builds the ScanResult
ReturnTo(rest, value) ==
  IF rest = <<>>
  THEN /\ stack' = <<>>
       /\ scanResult' =
            IF value = <<>>
            THEN [st |-> "done", tree |-> <<>>, totalProjects |-> 0,
                  totalPackages |-> 0]
            ELSE [st |-> "done", tree |-> value,
                  totalProjects |-> value[1].totalProjects,
                  totalPackages |-> value[1].totalPackages]
  ELSE /\ stack' = [rest EXCEPT ![Len(rest)].children = @ \o value]
       /\ UNCHANGED scanResult

Top == stack[Len(stack)]
Below == SubSeq(stack, 1, Len(stack) - 1)

ScanInit ==
  /\ host \in {"desktop", "extension"}
  /\ server = [k \in Keywords |-> HttpOk(ObjectBody(<<>>))]
  /\ ClientQuiet
  /\ KeywordIdle
  /\ ScanIdle
  /\ AuxIdle

\* subdirectories still to be visited by the frames in progress
DirsAhead == SumSeq([i \in 1..Len(stack) |-> stack[i].dirs])

\* ---- a scan starts: the counters are zero, scanDir(rootPath, 0) is called
\* ---- (main.js: the counters are locals of the call; extension: the
\* ---- fields are reset) and waits for the listing of the root
ScanStart ==
  /\ stack = <<>>
  /\ scans < MaxScans
  /\ scans' = scans + 1
  /\ LET e == EnterScanDir(0, 0, FALSE)
     IN /\ foldersScanned' = e.folders
        /\ scanLimitReached' = e.limit
        /\ stack' = <<ReadingFrame(0)>>
  /\ filesScanned' = 0
  /\ scanResult' = [NoResult EXCEPT !.st = "running"]
  /\ dirsRead' = 0
  /\ lastRead' = NoRead
  /\ lastLoop' = NoRead
  /\ depthCuts' = 0
  /\ UNCHANGED <<auxVars, clientVars, keywordVars>>

\* ---- readdir fails: the catch returns null
ReaddirFails ==
  /\ stack # <<>>
  /\ Top.st = "reading"
  /\ ReturnTo(Below, <<>>)
  /\ lastRead' = [depth |-> Top.depth, folders |-> foldersScanned,
                  files |-> filesScanned]
  /\ dirsRead' = dirsRead + 1
  /\ UNCHANGED <<filesScanned, foldersScanned, scanLimitReached, scans,
                 lastLoop, depthCuts>>
  /\ UNCHANGED <<auxVars, clientVars, keywordVars>>

\* ---- readdir answers: the entries are counted, the file quota is
\* ---- checked, the entries are sorted and the loop is entered
Readdir(l) ==
  /\ stack # <<>>
  /\ Top.st = "reading"
  /\ l.readable
  /\ dirsRead + 1 + DirsAhead + l.dirs <= MaxDirs
  /\ dirsRead' = dirsRead + 1
  /\ filesScanned' = filesScanned + EntryCount(l)
  /\ lastRead' = [depth |-> Top.depth, folders |-> foldersScanned,
                  files |-> filesScanned']
  /\ IF OverQuota(filesScanned', MAX_FILES_SCANNED)
     THEN /\ scanLimitReached' = TRUE
          /\ ReturnTo(Below, <<>>)
          /\ UNCHANGED lastLoop
     ELSE /\ stack' = [stack EXCEPT ![Len(stack)] =
                         [@ EXCEPT !.st = "loop", !.hollow = l.hollow,
                                   !.dirs = l.dirs, !.manifests = l.manifests]]
          /\ lastLoop' = [depth |-> Top.depth, folders |-> foldersScanned,
                          files |-> filesScanned']
          /\ UNCHANGED <<scanLimitReached, scanResult>>
  /\ UNCHANGED <<foldersScanned, scans, depthCuts>>
  /\ UNCHANGED <<auxVars, clientVars, keywordVars>>

\* the calls of a run of n hollow subdirectories that get as far as readdir
HollowListed(folders, n) ==
  {k \in 1..n : ~OverQuota(folders + k, MAX_FOLDERS_SCANNED)}

\* ---- the loop visits the hollow subdirectories one after another: each
\* ---- call counts a folder and, unless the folder quota stops it, lists
\* ---- no entry and returns null
ScanHollow ==
  /\ stack # <<>>
  /\ Top.st = "loop"
  /\ Top.hollow > 0
  /\ stack' = [stack EXCEPT ![Len(stack)].hollow = 0]
  /\ IF TooDeep(Top.depth + 1, DEFAULT_MAX_DEPTH)
     THEN /\ depthCuts' = depthCuts + Top.hollow
          /\ UNCHANGED <<foldersScanned, scanLimitReached, lastRead>>
     ELSE LET listed == HollowListed(foldersScanned, Top.hollow)
          IN /\ foldersScanned' = foldersScanned + Top.hollow
             /\ scanLimitReached' =
                  (\/ scanLimitReached
                   \/ Cardinality(listed) < Top.hollow
                   \/ listed # {} /\ OverQuota(filesScanned, MAX_FILES_SCANNED))
             /\ lastRead' =
                  IF listed = {} THEN lastRead
                  ELSE [depth |-> Top.depth + 1,
                        folders |-> foldersScanned + Cardinality(listed),
                        files |-> filesScanned]
             /\ UNCHANGED depthCuts
  /\ UNCHANGED <<filesScanned, scanResult, scans, dirsRead, lastLoop>>
  /\ UNCHANGED <<auxVars, clientVars, keywordVars>>

\* ---- the loop reaches a subdirectory: scanDir(child, depth + 1)
ScanChild ==
  /\ stack # <<>>
  /\ Top.st = "loop"
  /\ Top.hollow = 0
  /\ Top.dirs > 0
  /\ LET e == EnterScanDir(Top.depth + 1, foldersScanned, scanLimitReached)
         here == [Top EXCEPT !.dirs = @ - 1]
     IN /\ foldersScanned' = e.folders
        /\ scanLimitReached' = e.limit
        /\ depthCuts' = depthCuts + e.cut
        /\ stack' = IF e.ret
                    THEN Below \o <<here>>
                    ELSE Below \o <<here, ReadingFrame(Top.depth + 1)>>
  /\ UNCHANGED <<filesScanned, scanResult, scans, dirsRead, lastRead, lastLoop>>
  /\ UNCHANGED <<auxVars, clientVars, keywordVars>>

\* ---- the loop reaches a manifest: parseDependencyFile, dependencyFiles.push
ScanManifest ==
  /\ stack # <<>>
  /\ Top.st = "loop"
  /\ Top.hollow = 0
  /\ Top.dirs = 0
  /\ Top.manifests # <<>>
  /\ stack' = [stack EXCEPT ![Len(stack)] =
                 [@ EXCEPT !.manifests = Tail(@),
                           !.dependencyFiles = Append(@, Head(Top.manifests))]]
  /\ UNCHANGED <<filesScanned, foldersScanned, scanLimitReached, scanResult,
                 scans, dirsRead, lastRead, lastLoop, depthCuts>>
  /\ UNCHANGED <<auxVars, clientVars, keywordVars>>

\* ---- the loop is over: the totals are computed, the node or null returned
ScanReturn ==
  /\ stack # <<>>
  /\ Top.st = "loop"
  /\ Top.hollow = 0
  /\ Top.dirs = 0
  /\ Top.manifests = <<>>
  /\ ReturnTo(Below, NodeOf(Top))
  /\ UNCHANGED <<filesScanned, foldersScanned, scanLimitReached, scans,
                 dirsRead, lastRead, lastLoop, depthCuts>>
  /\ UNCHANGED <<auxVars, clientVars, keywordVars>>

ScanNext ==
  \/ ScanStart
  \/ ReaddirFails
  \/ \E l \in Listings : Readdir(l)
  \/ ScanHollow
  \/ ScanChild
  \/ ScanManifest
  \/ ScanReturn

ScanSpec == ScanInit /\ [][ScanNext]_vars

\* ------------------------------------------------------------------------
\* Properties of the client
\* ------------------------------------------------------------------------
Ceil(n, d) == (n + d - 1) \div d

\* every keyword fetch the state still shows: those of the calls in
\* progress and those of the call that finished last
Fetches ==
  UNION {{[owner |-> c, index |-> i, slot |-> calls[c].slots[i],
           key |-> CacheKey(KeywordOf(calls[c].products[i]), RESULTS_PER_PRODUCT)]
            : i \in {j \in 1..Len(calls[c].slots) : calls[c].slots[j].st # "todo"}}
         : c \in CallIds}
  \cup {[owner |-> 0, index |-> i, slot |-> done.call.slots[i],
         key |-> CacheKey(KeywordOf(done.call.products[i]), RESULTS_PER_PRODUCT)]
          : i \in {j \in 1..Len(done.call.slots) : done.call.slots[j].st # "todo"}}

Abs(x) == IF x >= 0 THEN x ELSE -x

\* C1 (as stated): any two fetches of one key that start within one TTL
\* window of each other cause one remote request, never two, also when they
\* overlap in time.
C1_OneRequestPerWindow ==
  \A f, g \in Fetches :
    (f # g /\ f.key = g.key /\ Abs(f.slot.start - g.slot.start) < CACHE_TTL)
      => ~(f.slot.remote /\ g.slot.remote)

\* C1 (amended): a keyword fetch that starts less than the TTL after an
\* earlier fetch of the same key has succeeded issues no remote request and
\* is served from the cache.
C1_NoRequestAfterFreshSuccess ==
  \A f \in Fetches :
    (f.slot.prevOk >= 0 /\ f.slot.start - f.slot.prevOk < CACHE_TTL)
      => (~f.slot.remote /\ f.slot.st = "hit")

C1_Witness ==
  \E f \in Fetches : /\ f.slot.st = "hit"
                     /\ f.slot.prevOk >= 0
                     /\ f.slot.start - f.slot.prevOk = REQUEST_DELAY

MinOf(S) == CHOOSE x \in S : \A y \in S : x <= y

Settled(slot) == slot.st \in {"ok", "fail", "hit"}

\* C2: a call over N products runs ceil(N/5) batches one after another, a
\* batch starting only when the one before has settled and the delay has
\* passed; it waits ceil(N/5)-1 times, never before the first batch; at most
\* BATCH_SIZE of its requests are in flight.
C2_BatchesOneAfterAnother ==
  /\ \A c \in CallIds :
       LET call == calls[c]
       IN /\ Cardinality(Pending(call)) <= BATCH_SIZE
          /\ \A i \in 1..Len(call.slots) :
               /\ call.slots[i].st = "pending" => i \in BatchRange(call)
               /\ i > call.batchStart + BATCH_SIZE => call.slots[i].st = "todo"
               /\ (call.pc = "batch" /\ i <= call.batchStart)
                    => Settled(call.slots[i])
               /\ (call.pc = "batch" /\ call.batchStart > 0 /\ i \in BatchRange(call))
                    => call.slots[i].start >= call.delayStart + REQUEST_DELAY
               /\ call.pc = "delay" => (i > call.batchStart <=> call.slots[i].st = "todo")
          /\ call.pc = "batch" => /\ call.batches = (call.batchStart \div BATCH_SIZE) + 1
                                  /\ call.delays = call.batches - 1
          /\ call.pc = "delay" => /\ call.batches = call.batchStart \div BATCH_SIZE
                                  /\ call.delays = call.batches
  /\ (done.call.pc = "returned" /\ Len(done.call.products) > 0)
       => /\ done.call.batches = Ceil(Len(done.call.products), BATCH_SIZE)
          /\ done.call.delays = done.call.batches - 1

C2_Witness ==
  /\ done.call.pc = "returned"
  /\ ~done.call.aborted
  /\ Len(done.call.products) = 2 * BATCH_SIZE + 2
  /\ done.call.batches = 3
  /\ done.call.delays = 2
  /\ \E i \in 1..Len(done.call.slots) : done.call.slots[i].remote

Yields(call, i) == IdsOf(call.slots[i].cves)

\* C3: the returned list holds no vulnerability id twice, and each record
\* names as matchedProduct the first product of the input list that yielded
\* its id, in whatever order the requests of a batch completed.
C3_OneRecordFirstProduct ==
  done.call.pc = "returned" =>
    LET call == done.call
        r == call.result
    IN /\ \A a, b \in 1..Len(r) : r[a].id = r[b].id => a = b
       /\ \A a \in 1..Len(r) :
            LET P == {i \in 1..Len(call.products) : r[a].id \in Yields(call, i)}
            IN /\ P # {}
               /\ r[a].matchedProduct = call.products[MinOf(P)].name

C3_Witness ==
  /\ done.call.pc = "returned"
  /\ Len(done.call.result) >= 2
  /\ \E i, j \in 1..Len(done.call.products) :
       /\ i < j
       /\ done.call.products[i].name # done.call.products[j].name
       /\ done.call.slots[i].remote /\ done.call.slots[j].remote
       /\ Yields(done.call, i) \cap Yields(done.call, j) # {}

\* C4: a failed keyword fetch gives its own product an empty result; the
\* call still returns, every batch is run, and the records of every other
\* fetch are in the returned list.
C4_FailureStaysLocal ==
  (done.call.pc # "free" /\ ~done.call.aborted) =>
    LET call == done.call
    IN /\ call.pc = "returned"
       /\ call.batches = Ceil(Len(call.products), BATCH_SIZE)
       /\ \A i \in 1..Len(call.slots) :
            /\ Settled(call.slots[i])
            /\ call.slots[i].st = "fail" => call.slots[i].cves = <<>>
            /\ Yields(call, i) \subseteq IdsOf(call.result)

C4_Witness ==
  /\ done.call.pc = "returned"
  /\ ~done.call.aborted
  /\ \E i, j \in 1..BATCH_SIZE, k \in (BATCH_SIZE + 1)..Len(done.call.slots) :
       /\ done.call.slots[i].st = "fail"
       /\ done.call.slots[i].kind \in {"apierror", "timeout", "validation"}
       /\ done.call.slots[j].st = "ok"
       /\ Yields(done.call, j) # {}
       /\ Yields(done.call, k) # {}
       /\ Yields(done.call, j) \cup Yields(done.call, k) \subseteq IdsOf(done.call.result)

\* C6 (as stated): a call whose signal was raised while it ran does not
\* complete with a normal result list, and the caller's list is not updated
\* from it.
C6_CancelledNeverReturns ==
  done.call.aborted => (done.call.pc # "returned" /\ ~done.applied)

\* C6 (amended): the caller never takes the list of a call whose signal was
\* raised while it ran; the call itself fails with 'Fetch aborted' exactly
\* when a batch was still to start at its next loop head, and otherwise
\* returns what it gathered.
C6_CancelledNeverApplied ==
  /\ done.call.aborted => ~done.applied
  /\ done.call.pc = "threw"
       => /\ done.call.aborted
          /\ done.call.batchStart < Len(done.call.products)
  /\ (done.call.aborted /\ done.call.pc = "returned")
       => done.call.batchStart >= Len(done.call.products)

C6_Witness ==
  /\ done.call.aborted
  /\ done.call.pc = "returned"
  /\ done.call.result # <<>>
  /\ ~done.applied
  /\ cves # done.call.result

\* C7: a keyword query answered with HTTP 403 reaches the caller of the
\* fetch as a failure, never as a normal result.
C7_RateLimitReachesCaller ==
  \A i \in 1..Len(done.call.slots) :
    done.call.slots[i].kind = "ratelimited" => done.call.pc # "returned"

InvalidBody(d) ==
  \/ d.kind # "object"
  \/ d.vulns = "notarray"
  \/ d.vulns = "array" /\ \E i \in 1..Len(d.items) : d.items[i] \in BadItems

Decoded(x) == x.net = "ok" /\ x.status = 200 /\ x.json

\* C5: a decoded response that is not an object, or whose vulnerabilities
\* field is present and not an array, or that holds one entry without a
\* well-formed identifier of at most 30 characters, fails the keyword fetch:
\* no record is returned or cached, those of its valid entries included; a
\* response without such a fault yields the records of all its entries.
C5_ValidationAllOrNothing ==
  (fetched.st = "done" /\ Decoded(exchange)) =>
    IF InvalidBody(exchange.data)
    THEN /\ ~fetched.ok
         /\ fetched.kind = "validation"
         /\ fetched.cves = <<>>
         /\ cache = <<>>
    ELSE /\ fetched.ok
         /\ fetched.cves = ParseAll(exchange.data.items)

C5_Witness ==
  /\ fetched.st = "done"
  /\ Decoded(exchange)
  /\ exchange.data.vulns = "array"
  /\ Len(exchange.data.items) = 2
  /\ exchange.data.items[1] = ItemA
  /\ exchange.data.items[2] = ItemTooLong
  /\ ~fetched.ok
  /\ fetched.cves = <<>>

\* C8: the cache never holds more than MAX_CACHE_SIZE entries.
C8_CacheBounded == Len(cache) <= MAX_CACHE_SIZE

RECURSIVE NodeWithin(_, _)
\* node sits at depth d, no deeper than the limit, and so on for its children
NodeWithin(node, d) ==
  /\ node.depth = d
  /\ d <= DEFAULT_MAX_DEPTH
  /\ \A i \in 1..Len(node.children) : NodeWithin(node.children[i], d + 1)

RECURSIVE Deepest(_)
Deepest(node) ==
  IF node.children = <<>> THEN node.depth
  ELSE LET ds == {Deepest(node.children[i]) : i \in 1..Len(node.children)}
       IN CHOOSE d \in ds : \A e \in ds : e <= d

\* C9: every node of the tree a scan returns (and of the tree under
\* construction) lies at most 5 levels below the root, and no directory
\* deeper than that is ever read.
C9_DepthBounded ==
  /\ \A i \in 1..Len(scanResult.tree) : NodeWithin(scanResult.tree[i], 0)
  /\ \A f \in 1..Len(stack) :
       /\ stack[f].depth <= DEFAULT_MAX_DEPTH
       /\ \A i \in 1..Len(stack[f].children) :
            NodeWithin(stack[f].children[i], stack[f].depth + 1)
  /\ lastRead.depth <= DEFAULT_MAX_DEPTH

C9_Witness ==
  /\ scanResult.st = "done"
  /\ scanResult.tree # <<>>
  /\ Deepest(scanResult.tree[1]) = DEFAULT_MAX_DEPTH
  /\ depthCuts > 0

\* C10: within one scan the two counters never decrease; a directory is
\* listed only while foldersScanned is within its quota, its entries are
\* processed only while both counters are within theirs, and the limit flag
\* is up exactly when a counter has passed its quota.
C10_QuotasHalt ==
  /\ [](/\ lastRead.folders <= MAX_FOLDERS_SCANNED
        /\ lastLoop.folders <= MAX_FOLDERS_SCANNED
        /\ lastLoop.files <= MAX_FILES_SCANNED
        /\ scanLimitReached <=> (\/ foldersScanned > MAX_FOLDERS_SCANNED
                                 \/ filesScanned > MAX_FILES_SCANNED))
  /\ [][scans' = scans => /\ foldersScanned' >= foldersScanned
                          /\ filesScanned' >= filesScanned]_vars

C10_Witness ==
  /\ scanResult.st = "done"
  /\ scanResult.tree # <<>>
  /\ scanLimitReached
  /\ foldersScanned > MAX_FOLDERS_SCANNED
  /\ lastRead.folders = MAX_FOLDERS_SCANNED

\* the nodes under construction and the returned ones, as a set of roots
TreeRoots ==
  {scanResult.tree[i] : i \in 1..Len(scanResult.tree)}
    \cup UNION {{stack[f].children[i] : i \in 1..Len(stack[f].children)}
                  : f \in 1..Len(stack)}

RECURSIVE TotalsAddUp(_)
TotalsAddUp(node) ==
  /\ node.totalPackages =
       SumSeq(node.dependencyFiles)
         + SumSeq([i \in 1..Len(node.children) |-> node.children[i].totalPackages])
  /\ node.totalProjects =
       (IF Len(node.dependencyFiles) > 0 THEN 1 ELSE 0)
         + SumSeq([i \in 1..Len(node.children) |-> node.children[i].totalProjects])
  /\ \A i \in 1..Len(node.children) : TotalsAddUp(node.children[i])

\* C11: in every node totalPackages is the packages of its own manifests
\* plus the children's totalPackages, totalProjects is 1 for a node with a
\* manifest (else 0) plus the children's totalProjects, and the totals of
\* the ScanResult are those of the root node (0 and 0 without a tree).
C11_TotalsAddUp ==
  /\ \A n \in TreeRoots : TotalsAddUp(n)
  /\ scanResult.st = "done" =>
       IF scanResult.tree = <<>>
       THEN scanResult.totalPackages = 0 /\ scanResult.totalProjects = 0
       ELSE /\ scanResult.totalPackages = scanResult.tree[1].totalPackages
            /\ scanResult.totalProjects = scanResult.tree[1].totalProjects

C11_Witness ==
  /\ scanResult.st = "done"
  /\ scanResult.tree # <<>>
  /\ Len(scanResult.tree[1].dependencyFiles) > 0
  /\ \E i \in 1..Len(scanResult.tree[1].children) :
       /\ scanResult.tree[1].children[i].totalPackages > 0
       /\ scanResult.tree[1].children[i].children # <<>>
  /\ scanResult.totalProjects >= 3
  /\ scanResult.totalPackages > SumSeq(scanResult.tree[1].dependencyFiles)

RECURSIVE NodeKept(_)
NodeKept(node) ==
  /\ Len(node.dependencyFiles) > 0 \/ Len(node.children) > 0
  /\ node.children = <<>> => Len(node.dependencyFiles) > 0
  /\ node.isProject <=> Len(node.dependencyFiles) > 0
  /\ node.totalProjects >= 1
  /\ \A i \in 1..Len(node.children) : NodeKept(node.children[i])

\* C12: every node has a manifest file or a child node, so every leaf has a
\* manifest and every node a manifest somewhere in its subtree; isProject
\* holds exactly for the nodes with a manifest file of their own.
C12_OnlyFoldersWithManifests == \A n \in TreeRoots : NodeKept(n)

C12_Witness ==
  /\ scanResult.st = "done"
  /\ scanResult.tree # <<>>
  /\ ~scanResult.tree[1].isProject
  /\ Len(scanResult.tree[1].children) = 1
  /\ scanResult.tree[1].children[1].isProject
  /\ dirsRead = 3
  /\ filesScanned = 4
  /\ ~scanLimitReached

\* C13: a scan stopped by a quota returns the partial tree, and the
\* ScanResult tells the caller that the scan was limited: a result equal to
\* the one an unlimited scan returns for a folder with one manifest of one
\* package (and nothing else that yields a node) comes from an unlimited scan.
C13_ResultTellsLimit ==
  LET node == NodeOf([ReadingFrame(0) EXCEPT !.st = "loop",
                                             !.dependencyFiles = <<1>>])
      unlimited == [st |-> "done", tree |-> node,
                    totalProjects |-> node[1].totalProjects,
                    totalPackages |-> node[1].totalPackages]
  IN scanResult = unlimited => ~scanLimitReached

\* ------------------------------------------------------------------------
\* The manifest parser: parseDependencyFile on a package.json
\* (main-process/main.js, src-extension/services/dependencyScanner.ts).
\* A string is the sequence of its characters.
\* ------------------------------------------------------------------------
\* entries of one dependency map of a manifest
MaxDeps == 2

PackageNames == {"a", "b"}

\* values a dependency map may hold: two strings and a number
VersionValues ==
  {[type |-> "string", chars |-> <<"^", "1">>],
   [type |-> "string", chars |-> <<"2">>],
   [type |-> "number", chars |-> <<"7">>]}

\* the dependency maps of a JSON object: keys in the order of the text,
\* no key twice
DependencyMaps ==
  {q \in UNION {[1..n -> [name : PackageNames, version : VersionValues]] :
                  n \in 0..MaxDeps} :
     \A i, j \in 1..Len(q) : q[i].name = q[j].name => i = j}

\* the files parseDependencyFile may be given as package.json: one that
\* cannot be read, one over MAX_FILE_SIZE, one that is not JSON, and the
\* JSON objects with the two dependency maps
Manifests ==
  {[NoManifest EXCEPT !.kind = k] : k \in {"unreadable", "oversized", "malformed"}}
    \cup [kind : {"object"}, dependencies : DependencyMaps,
          devDependencies : DependencyMaps]

Names(map) == {map[i].name : i \in 1..Len(map)}
ValueOf(map, name) == (CHOOSE i \in 1..Len(map) : map[i].name = name)

\* { ...pkg.dependencies, ...pkg.devDependencies }: the keys of the first
\* map in their order, then the new keys of the second; the second map's
\* value wins
RECURSIVE NewKeys(_, _)
NewKeys(map, known) ==
  IF map = <<>> THEN <<>>
  ELSE IF Head(map).name \in known THEN NewKeys(Tail(map), known)
       ELSE <<Head(map)>> \o NewKeys(Tail(map), known)

allDeps(pkg) ==
  [i \in 1..Len(pkg.dependencies) |->
     IF pkg.dependencies[i].name \in Names(pkg.devDependencies)
     THEN pkg.devDependencies[ValueOf(pkg.devDependencies,
                                      pkg.dependencies[i].name)]
     ELSE pkg.dependencies[i]]
    \o NewKeys(pkg.devDependencies, Names(pkg.dependencies))

\* version.replace(/^[\^~>=<]+/, '')
RECURSIVE StripRange(_)
StripRange(chars) ==
  IF chars # <<>> /\ Head(chars) \in {"^", "~", ">", "=", "<"}
  THEN StripRange(Tail(chars))
  ELSE chars

\* the loop over Object.entries(allDeps): a record is pushed per entry;
\* main.js calls version.replace, which throws for a value that is not a
\* string, and the catch leaves dependencies as the loop filled it so far;
\* the extension converts with String(version) first
RECURSIVE PushEntries(_, _, _, _)
PushEntries(h, entries, pkg, dependencies) ==
  IF entries = <<>>
  THEN [st |-> "returned", failed |-> FALSE, dependencies |-> dependencies]
  ELSE LET e == Head(entries)
       IN IF h = "desktop" /\ e.version.type # "string"
          THEN [st |-> "returned", failed |-> TRUE, dependencies |-> dependencies]
          ELSE PushEntries(h, Tail(entries), pkg,
                 Append(dependencies,
                   [name |-> e.name,
                    version |-> StripRange(e.version.chars),
                    ecosystem |-> "npm",
                    type |-> IF e.name \in Names(pkg.devDependencies)
                             THEN "dev" ELSE "prod"]))

\* parseDependencyFile(filePath, 'package.json'): stat or readFile throwing
\* and JSON.parse throwing end in the catch, an oversized file is skipped;
\* in every case the dependencies array is returned
parseDependencyFile(h, file) ==
  CASE file.kind = "oversized" ->
         [st |-> "returned", failed |-> FALSE, dependencies |-> <<>>]
    [] file.kind \in {"unreadable", "malformed"} ->
         [st |-> "returned", failed |-> TRUE, dependencies |-> <<>>]
    [] OTHER -> PushEntries(h, allDeps(file), file, <<>>)

ParseInit ==
  /\ host \in {"desktop", "extension"}
  /\ server = [k \in Keywords |-> HttpOk(ObjectBody(<<>>))]
  /\ ClientQuiet
  /\ KeywordIdle
  /\ ScanIdle
  /\ manifest \in Manifests
  /\ parsed = NotParsed
  /\ notifications = TRUE
  /\ FolderIdle
  /\ WalkIdle
  /\ correlation = NoCorrelation
  /\ record = NoRecord
  /\ faults = NoFaults

ParseDependencyFile ==
  /\ parsed.st = "none"
  /\ parsed' = parseDependencyFile(host, manifest)
  /\ UNCHANGED <<clientVars, keywordVars, scanVars, manifest, notifications,
                 folderVars, walkVars, correlation, record, faults>>

ParseNext == ParseDependencyFile

ParseSpec == ParseInit /\ [][ParseNext]_vars

\* C14: parsing a manifest never throws to the caller, and when a failure
\* occurs inside the parse the returned dependency list is empty, never a
\* prefix of the records extracted before the failure.
C14_FailureYieldsEmpty ==
  parsed.st = "returned" /\ parsed.failed => parsed.dependencies = <<>>

\* ------------------------------------------------------------------------
\* The client with the notifications preference changed while it runs
\* ------------------------------------------------------------------------
\* the answers of the remote service in these runs
NotifyResponses ==
  { HttpOk(ObjectBody(<<>>)),
    HttpOk(ObjectBody(<<ItemB, ItemA>>)) }

NotifyInit ==
  /\ host \in {"desktop", "extension"}
  /\ server \in [Keywords -> NotifyResponses]
  /\ ClientQuiet
  /\ KeywordIdle
  /\ ScanIdle
  /\ AuxIdle

\* the notifications switch is used.  Desktop: set-preference stores the
\* value and returns the preferences, whose products array is a new object,
\* so the products effect runs fetchCVEs().  Extension: the setting is
\* written and the configuration listener calls refresh().
SetNotifications(value) ==
  /\ value # notifications
  /\ notifications' = value
  /\ LET st == [CallerState EXCEPT !.notifications = value]
     IN IF host = "extension"
        THEN /\ isLoading \/ fetches < MaxFetches
             /\ fetches' = IF isLoading THEN fetches ELSE fetches + 1
             /\ Apply(ExtensionStart(st, products))
             /\ UNCHANGED lastFetchTime
        ELSE /\ mounted
             /\ fetches < MaxFetches
             /\ fetches' = fetches + 1
             /\ IF RateLimited(FALSE)
                THEN UNCHANGED <<calls, cves, isLoading, error, seenCVEIds,
                                 isFirstLoad, current, done, lastFetchTime>>
                ELSE /\ Len(products) # 0 => FreeIn(AbortCurrent(st).calls) # {}
                     /\ lastFetchTime' = now
                     /\ Apply(DesktopStart(st, products))
  /\ UNCHANGED <<parseVars, folderVars, walkVars, correlation, record, faults, keywordVars, scanVars, host,
                 server,
                 now, cache, products, lastOk, mounted>>

NotifyNext ==
  \/ ClientNext
  \/ \E value \in BOOLEAN : SetNotifications(value)

NotifySpec == NotifyInit /\ [][NotifyNext]_vars

\* C15: the notification sink is invoked only for a record of severity HIGH
\* or CRITICAL whose id was not observed by an earlier completed fetch, only
\* while the notifications preference is true, and never for a record of the
\* first successful load.
C15_NotifiedOnlyWhenWanted ==
  [][done' # done =>
       \A i \in 1..Len(done'.notified) :
         /\ done'.notified[i].severity \in {"HIGH", "CRITICAL"}
         /\ done'.notified[i].id \notin seenCVEIds
         /\ ~isFirstLoad
         /\ notifications']_vars

\* ------------------------------------------------------------------------
\* The projects folder handlers of the desktop main process:
\* select-projects-folder, rescan-projects, clear-projects-folder
\* (main-process/main.js), on a POSIX file system
\* ------------------------------------------------------------------------
\* handler invocations in a run
MaxFolderOps == 3
\* changes of the file system in a run
MaxFsChanges == 1

\* the POSIX entries of FORBIDDEN_PATHS
FORBIDDEN_PATHS ==
  {<<>>, <<"bin">>, <<"sbin">>, <<"usr">>, <<"etc">>, <<"var">>, <<"tmp">>,
   <<"private">>, <<"System">>, <<"Library">>, <<"Applications">>, <<"Users">>}

\* an exact match is forbidden; below /Users/ nothing is; a path of at
\* most one component starts with the forbidden '/' and is forbidden
isForbiddenPath(normalizedPath) ==
  IF normalizedPath \in FORBIDDEN_PATHS THEN TRUE
  ELSE IF Len(normalizedPath) >= 2 /\ normalizedPath[1] = "Users" THEN FALSE
  ELSE Len(normalizedPath) <= 1

\* what a path is on disk
EntryKinds == {"dir", "file", "missing", "linkToEtc", "linkToWork"}

FollowLink(fs, q) ==
  CASE fs[q] = "linkToEtc" -> Etc
    [] fs[q] = "linkToWork" -> Work
    [] OTHER -> q

\* fs.promises.realpath: links are followed to the end
realpath(fs, q) == FollowLink(fs, FollowLink(fs, q))

\* validatePath accepting every path that resolves
validatePathUnchecked(fs, targetPath) ==
  IF fs[realpath(fs, targetPath)] = "missing"
  THEN [valid |-> FALSE, error |-> "Cannot access path", realPath |-> NoPath]
  ELSE [valid |-> TRUE, error |-> "none", realPath |-> realpath(fs, targetPath)]

validatePath(fs, targetPath) ==
  LET realPath == realpath(fs, targetPath)
  IN IF fs[realPath] = "missing"
     THEN [valid |-> FALSE, error |-> "Cannot access path", realPath |-> NoPath]
     ELSE IF isForbiddenPath(realPath)
     THEN [valid |-> FALSE, error |-> "Cannot scan system directories",
           realPath |-> NoPath]
     ELSE IF fs[realPath] # "dir"
     THEN [valid |-> FALSE, error |-> "Selected path is not a directory",
           realPath |-> NoPath]
     ELSE [valid |-> TRUE, error |-> "none", realPath |-> realPath]

FolderInit ==
  /\ host = "desktop"
  /\ server = [k \in Keywords |-> HttpOk(ObjectBody(<<>>))]
  /\ ClientQuiet
  /\ KeywordIdle
  /\ ScanIdle
  /\ ParseIdle
  /\ notifications = TRUE
  /\ fsys \in [FolderPaths -> EntryKinds]
  /\ fsys[Etc] = "dir"
  /\ fsys[Work] # "linkToWork"
  /\ store = EmptyStore
  /\ folderOps = [started |-> 0, changes |-> 0, running |-> {}]
  /\ folderLog = [reply |-> NoReply, scans |-> {}, chosen |-> {}]
  /\ WalkIdle
  /\ correlation = NoCorrelation
  /\ record = NoRecord
  /\ faults = NoFaults

FolderRest == <<clientVars, keywordVars, scanVars, parseVars, notifications, walkVars,
               correlation, record, faults>>

\* ---- select-projects-folder, the dialog cancelled: null
SelectCancelled ==
  /\ folderOps.started < MaxFolderOps
  /\ folderOps' = [folderOps EXCEPT !.started = @ + 1]
  /\ folderLog' = [folderLog EXCEPT !.reply =
                     [op |-> folderOps'.started, kind |-> "null", error |-> "none"]]
  /\ UNCHANGED <<fsys, store, FolderRest>>

\* ---- select-projects-folder, a folder chosen: validatePath; on failure
\* ---- { error } is returned; otherwise the resolved path is stored and
\* ---- scanProjectsFolder(safePath) is called
SelectProjectsFolder(folderPath) ==
  /\ folderOps.started < MaxFolderOps
  /\ LET validation == validatePath(fsys, folderPath)
         op == folderOps.started + 1
         chosen == folderLog.chosen \cup
                     {[op |-> op, path |-> folderPath,
                       real |-> realpath(fsys, folderPath),
                       kind |-> fsys[realpath(fsys, folderPath)]]}
     IN IF ~validation.valid
        THEN /\ folderOps' = [folderOps EXCEPT !.started = op]
             /\ folderLog' = [folderLog EXCEPT
                                !.reply = [op |-> op, kind |-> "error",
                                           error |-> validation.error],
                                !.chosen = chosen]
             /\ UNCHANGED store
        ELSE /\ store' = [store EXCEPT !.projectsFolder = validation.realPath]
             /\ folderOps' = [folderOps EXCEPT
                                !.started = op,
                                !.running = @ \cup {[op |-> op, handler |-> "select",
                                                     rootPath |-> validation.realPath]}]
             /\ folderLog' = [folderLog EXCEPT
                                !.scans = @ \cup {[op |-> op,
                                                   rootPath |-> validation.realPath]},
                                !.chosen = chosen]
  /\ UNCHANGED <<fsys, FolderRest>>

\* ---- rescan-projects: null without a stored folder, otherwise
\* ---- scanProjectsFolder(folderPath) is called
RescanProjects ==
  /\ folderOps.started < MaxFolderOps
  /\ LET op == folderOps.started + 1
     IN IF store.projectsFolder = NoPath
        THEN /\ folderOps' = [folderOps EXCEPT !.started = op]
             /\ folderLog' = [folderLog EXCEPT !.reply =
                                [op |-> op, kind |-> "null", error |-> "none"]]
        ELSE /\ folderOps' = [folderOps EXCEPT
                                !.started = op,
                                !.running = @ \cup {[op |-> op, handler |-> "rescan",
                                                     rootPath |-> store.projectsFolder]}]
             /\ folderLog' = [folderLog EXCEPT
                                !.scans = @ \cup {[op |-> op,
                                                   rootPath |-> store.projectsFolder]}]
  /\ UNCHANGED <<fsys, store, FolderRest>>

\* ---- the scan of a handler returns: scannedProjects and lastProjectsScan
\* ---- are stored and the result is returned
FolderScanReturns(r) ==
  /\ r \in folderOps.running
  /\ folderOps' = [folderOps EXCEPT !.running = @ \ {r}]
  /\ store' = [store EXCEPT !.scannedProjects = r.rootPath,
                            !.lastProjectsScan = folderOps.started]
  /\ folderLog' = [folderLog EXCEPT !.reply =
                     [op |-> r.op, kind |-> "result", error |-> "none"]]
  /\ UNCHANGED <<fsys, FolderRest>>

\* ---- clear-projects-folder
ClearProjectsFolder ==
  /\ folderOps.started < MaxFolderOps
  /\ folderOps' = [folderOps EXCEPT !.started = @ + 1]
  /\ store' = EmptyStore
  /\ UNCHANGED <<fsys, folderLog, FolderRest>>

\* ---- something outside the program replaces what a path is
FsChange(q, kind) ==
  /\ folderOps.changes < MaxFsChanges
  /\ q # Etc
  /\ kind # fsys[q]
  /\ q = Work => kind # "linkToWork"
  /\ fsys' = [fsys EXCEPT ![q] = kind]
  /\ folderOps' = [folderOps EXCEPT !.changes = @ + 1]
  /\ UNCHANGED <<store, folderLog, FolderRest>>

FolderNext ==
  \/ SelectCancelled
  \/ \E folderPath \in FolderPaths : SelectProjectsFolder(folderPath)
  \/ RescanProjects
  \/ \E r \in folderOps.running : FolderScanReturns(r)
  \/ ClearProjectsFolder
  \/ \E q \in FolderPaths, kind \in EntryKinds : FsChange(q, kind)

FolderSpec == FolderInit /\ [][FolderNext]_vars

\* C16: a selection whose resolved target is missing, a forbidden system
\* directory or not a directory is answered with the error before any scan
\* starts and leaves projectsFolder, scannedProjects and lastProjectsScan as
\* they were; every scan starts on a path that a selection resolved to an
\* allowed directory.
C16_RejectedBeforeScan ==
  /\ [](\A scan \in folderLog.scans :
          \E c \in folderLog.chosen :
            /\ c.real = scan.rootPath
            /\ c.kind = "dir"
            /\ ~isForbiddenPath(c.real))
  /\ [][\A c \in folderLog'.chosen \ folderLog.chosen :
          (c.kind # "dir" \/ isForbiddenPath(c.real))
          => /\ folderLog'.reply.op = c.op
             /\ folderLog'.reply.kind = "error"
             /\ store' = store
             /\ folderLog'.scans = folderLog.scans
             /\ folderOps'.running = folderOps.running]_vars

C16_Witness ==
  /\ folderLog.reply.kind = "error"
  /\ folderLog.reply.error = "Cannot scan system directories"
  /\ store.projectsFolder = Work
  /\ store.scannedProjects = Work
  /\ store.lastProjectsScan > 0
  /\ \E c \in folderLog.chosen :
       c.op = folderLog.reply.op /\ c.path = Code /\ c.real = Etc

\* ------------------------------------------------------------------------
\* Two scans at the same time: two calls of scanProjectsFolder (desktop),
\* or two calls of scanWorkspace on the one DependencyScanner the extension
\* creates (the scanWorkspace command, the scan at start-up).  A scan lists
\* its root and then each subdirectory of the root.
\* ------------------------------------------------------------------------
\* subdirectories of a scanned root
MaxWalkDirs == 2

\* entries a listed directory may hold
WalkEntries == {2, MAX_FILES_SCANNED}

\* where a scan keeps its counters
Holder(h, i) == IF h = "extension" THEN 0 ELSE i

CountFolder(c, e) ==
  [c EXCEPT !.foldersScanned = e.folders, !.scanLimitReached = e.limit]

CountFiles(c, n) ==
  [c EXCEPT !.filesScanned = @ + n,
            !.scanLimitReached = @ \/ OverQuota(c.filesScanned + n, MAX_FILES_SCANNED)]

WalkInit ==
  /\ host \in {"desktop", "extension"}
  /\ server = [k \in Keywords |-> HttpOk(ObjectBody(<<>>))]
  /\ ClientQuiet
  /\ KeywordIdle
  /\ ScanIdle
  /\ AuxIdle

WalkRest == <<clientVars, keywordVars, scanVars, parseVars, notifications, folderVars,
             correlation, record, faults>>

\* ---- a scan starts: the counters are set to zero (desktop: new locals;
\* ---- extension: the fields of the instance), scanDir(rootPath, 0) counts
\* ---- the root and waits for its listing
WalkStart(i) ==
  /\ walks[i].pc = "idle"
  /\ LET e == EnterScanDir(0, 0, FALSE)
     IN /\ scanCounters' = [scanCounters EXCEPT ![Holder(host, i)] =
                              CountFolder(NoCounters, e)]
        /\ walks' = [walks EXCEPT ![i] =
                       [NoWalk EXCEPT !.pc = "readdir",
                                      !.own = CountFolder(NoCounters, e)]]
  /\ UNCHANGED WalkRest

\* ---- readdir answers with n entries, dirs of them subdirectories to
\* ---- visit: the entries are counted and the file quota is checked
WalkListed(i, n, dirs) ==
  /\ walks[i].pc = "readdir"
  /\ LET c == CountFiles(scanCounters[Holder(host, i)], n)
         over == OverQuota(c.filesScanned, MAX_FILES_SCANNED)
     IN /\ scanCounters' = [scanCounters EXCEPT ![Holder(host, i)] = c]
        /\ walks' = [walks EXCEPT ![i] =
                       [@ EXCEPT !.own = CountFiles(@, n),
                                 !.pc = IF walks[i].depth = 0 /\ over
                                        THEN "done" ELSE "loop",
                                 !.depth = 0,
                                 !.dirs = IF walks[i].depth = 0 /\ ~over
                                          THEN dirs ELSE @]]
  /\ UNCHANGED WalkRest

\* ---- the loop of the root reaches a subdirectory: scanDir(child, 1)
WalkChild(i) ==
  /\ walks[i].pc = "loop"
  /\ walks[i].dirs > 0
  /\ LET c == scanCounters[Holder(host, i)]
         e == EnterScanDir(1, c.foldersScanned, c.scanLimitReached)
         o == walks[i].own
         mine == EnterScanDir(1, o.foldersScanned, o.scanLimitReached)
     IN /\ scanCounters' = [scanCounters EXCEPT ![Holder(host, i)] =
                              CountFolder(c, e)]
        /\ walks' = [walks EXCEPT ![i] =
                       [@ EXCEPT !.dirs = @ - 1,
                                 !.own = CountFolder(o, mine),
                                 !.pc = IF e.ret THEN "loop" ELSE "readdir",
                                 !.depth = IF e.ret THEN 0 ELSE 1]]
  /\ UNCHANGED WalkRest

\* ---- the loop of the root is over: the scan returns
WalkReturn(i) ==
  /\ walks[i].pc = "loop"
  /\ walks[i].dirs = 0
  /\ walks' = [walks EXCEPT ![i].pc = "done"]
  /\ UNCHANGED <<scanCounters, WalkRest>>

WalkNext ==
  \/ \E i \in 1..2 : WalkStart(i)
  \/ \E i \in 1..2, n \in WalkEntries, dirs \in 0..MaxWalkDirs : WalkListed(i, n, dirs)
  \/ \E i \in 1..2 : WalkChild(i)
  \/ \E i \in 1..2 : WalkReturn(i)

WalkSpec == WalkInit /\ [][WalkNext]_vars

\* C17: two scans that overlap in time do not share counters: while a scan
\* runs, the foldersScanned, filesScanned and limitReached values its quota
\* checks are made against are the ones it counted itself, neither reset
\* nor advanced by the other scan.
C17_CountersOfOwnScan ==
  \A i \in 1..2 :
    walks[i].pc \in {"readdir", "loop"}
      => scanCounters[Holder(host, i)] = walks[i].own

\* ------------------------------------------------------------------------
\* fetchCVEsForProducts on products whose records differ in age: the first
\* batch queries keyword 1, the product of the second batch keyword 2
\* ------------------------------------------------------------------------
SortProductLists ==
  { <<Product(1, 1), Product(2, 2)>>,
    [i \in 1..(BATCH_SIZE + 1) |-> Product(i, IF i <= BATCH_SIZE THEN 1 ELSE 2)] }

SortResponses ==
  { HttpOk(ObjectBody(<<ItemC>>)),
    HttpOk(ObjectBody(<<ItemB, ItemA>>)),
    HttpOk(ObjectBody(<<ItemA>>)),
    HttpStatus(500) }

SortInit ==
  /\ host \in {"desktop", "extension"}
  /\ server \in [Keywords -> SortResponses]
  /\ ClientQuiet
  /\ KeywordIdle
  /\ ScanIdle
  /\ AuxIdle

SortNext ==
  \/ \E c \in CallIds : \E i \in Pending(calls[c]) : Respond(c, i)
  \/ \E c \in CallIds : DelayDone(c)
  \/ TickDelay
  \/ \E prods \in SortProductLists : DesktopChangeProducts(prods)
  \/ \E prods \in SortProductLists : ExtensionChangeProducts(prods)

SortSpec == SortInit /\ [][SortNext]_vars

MaxPackages == 2
MaxRecords == 2

Str(chars) == [present |-> TRUE, chars |-> chars]
Undefined == [present |-> FALSE, chars |-> <<>>]

PackageNamePool == {<<"a">>, <<"b">>, <<"A", "b">>, <<>>}
ProductNamePool ==
  {Str(<<"a">>), Str(<<"A">>), Str(<<"a", "b">>), Str(<<"b", "a">>), Undefined}
VendorPool == {Undefined, Str(<<"B">>), Str(<<"a", "b">>)}

\* String.prototype.toLowerCase
toLowerCase(chars) ==
  [i \in 1..Len(chars) |->
     CASE chars[i] = "A" -> "a"
       [] chars[i] = "B" -> "b"
       [] OTHER -> chars[i]]

\* String.prototype.includes: the search string is found at some position
RECURSIVE includes(_, _)
includes(chars, search) ==
  IF Len(search) > Len(chars) THEN FALSE
  ELSE IF SubSeq(chars, 1, Len(search)) = search THEN TRUE
  ELSE includes(Tail(chars), search)

\* the matching that compares the names as they are written
MatchesCased(cve, name) ==
  \/ cve.matchedProduct.present /\ cve.matchedProduct.chars = name
  \/ cve.vendor.present /\ cve.vendor.chars = name
  \/ cve.matchedProduct.present /\ includes(cve.matchedProduct.chars, name)

\* the callback of cves.filter in findCVEsForPackage
Matches(cve, name) ==
  LET pkgNameLower == toLowerCase(name)
  IN \/ cve.matchedProduct.present
          /\ toLowerCase(cve.matchedProduct.chars) = pkgNameLower
     \/ cve.vendor.present /\ toLowerCase(cve.vendor.chars) = pkgNameLower
     \/ cve.matchedProduct.present
          /\ includes(toLowerCase(cve.matchedProduct.chars), pkgNameLower)

RECURSIVE findCVEsForPackage(_, _)
findCVEsForPackage(name, records) ==
  IF records = <<>> THEN <<>>
  ELSE IF Matches(Head(records), name)
       THEN <<Head(records)>> \o findCVEsForPackage(name, Tail(records))
       ELSE findCVEsForPackage(name, Tail(records))

CorrelateInit ==
  /\ host = "desktop"
  /\ server = [k \in Keywords |-> HttpOk(ObjectBody(<<>>))]
  /\ ClientQuiet
  /\ KeywordIdle
  /\ ScanIdle
  /\ ParseIdle
  /\ notifications = TRUE
  /\ FolderIdle
  /\ WalkIdle
  /\ record = NoRecord
  /\ faults = NoFaults
  /\ \E packages \in UNION {[1..n -> PackageNamePool] : n \in 1..MaxPackages},
        records \in UNION {[1..n -> [id : {1}, matchedProduct : ProductNamePool,
                                     vendor : VendorPool]] : n \in 0..MaxRecords} :
       correlation = [NoCorrelation EXCEPT
                        !.packages = packages,
                        !.cves = [i \in 1..Len(records) |->
                                    [records[i] EXCEPT !.id = i]]]

\* ---- treeWithCVEs: processNode maps every package of the node to the
\* ---- package with cves: findCVEsForPackage(pkg, cves)
ProcessNode ==
  /\ correlation.st = "none"
  /\ correlation' =
       [correlation EXCEPT
          !.st = "done",
          !.attached = [i \in 1..Len(correlation.packages) |->
                          findCVEsForPackage(correlation.packages[i],
                                             correlation.cves)]]
  /\ UNCHANGED <<clientVars, keywordVars, scanVars, parseVars, notifications,
                 folderVars, walkVars, record, faults>>

CorrelateNext == ProcessNode

CorrelateSpec == CorrelateInit /\ [][CorrelateNext]_vars

\* the lower-case form of name occurs in the lower-case form of chars
OccursIn(name, chars) ==
  \E k \in 0..(Len(chars) - Len(name)) :
    \A j \in 1..Len(name) :
      toLowerCase(chars)[k + j] = toLowerCase(name)[j]

\* C19: a record is attached to a dependency exactly when, ignoring case,
\* its matchedProduct equals the dependency name, or its vendor equals it,
\* or its matchedProduct contains the name; the records attached to a
\* dependency are the same whatever the other dependencies are.
C19_AttachedExactlyOnMatch ==
  correlation.st = "done" =>
    \A i \in 1..Len(correlation.packages) :
      LET name == correlation.packages[i]
          wanted == {r \in 1..Len(correlation.cves) :
                       \/ /\ correlation.cves[r].matchedProduct.present
                          /\ OccursIn(name, correlation.cves[r].matchedProduct.chars)
                       \/ /\ correlation.cves[r].vendor.present
                          /\ Len(correlation.cves[r].vendor.chars) = Len(name)
                          /\ OccursIn(name, correlation.cves[r].vendor.chars)}
      IN /\ IdsOf(correlation.attached[i]) = wanted
         /\ Len(correlation.attached[i]) = Cardinality(wanted)
         /\ \A j \in 1..Len(correlation.packages) :
              correlation.packages[j] = name
                => correlation.attached[j] = correlation.attached[i]

C19_Witness ==
  /\ correlation.st = "done"
  /\ Len(correlation.packages) = 2
  /\ Len(correlation.cves) = 2
  /\ correlation.packages[1] = <<"A", "b">>
  /\ Len(correlation.attached[1]) = 1
  /\ correlation.attached[1][1].matchedProduct = Str(<<"a", "b">>)
  /\ correlation.packages[2] = <<"b">>
  /\ Len(correlation.attached[2]) = 2
  /\ correlation.cves[2].matchedProduct = Undefined
  /\ correlation.cves[2].vendor = Str(<<"B">>)

\* ------------------------------------------------------------------------
\* parseCVE: the references and the affected products of a record
\* (services/nvdService.js, src-extension/services/cveService.ts)
\* ------------------------------------------------------------------------
MAX_URL_LENGTH == 2048
\* (cve.references || []).slice(0, 5), affectedProducts.slice(0, 50)
REFERENCES_KEPT == 5
PRODUCTS_KEPT == 50

\* references of a remote item
MaxRefs == 7

\* a url value: not a string, or lead blanks, a scheme and rest more characters
Url(type, lead, scheme, rest) ==
  [type |-> type, lead |-> lead, scheme |-> scheme, rest |-> rest]

UrlPool ==
  << Url("string", 0, "https://", 20),
     Url("string", 0, "http://", 20),
     Url("string", 1, "https://", 20),
     Url("string", 0, "ftp://", 20),
     Url("string", 0, "https://", MAX_URL_LENGTH),
     Url("other", 0, "", 0) >>

SchemeLength(scheme) ==
  CASE scheme = "https://" -> 8
    [] scheme = "http://" -> 7
    [] scheme = "ftp://" -> 6
    [] OTHER -> 0

\* url.trim()
Trim(url) == [url EXCEPT !.lead = 0]

NoUrl == Url("string", 0, "", 0)

\* sanitizeUrl: '' unless a string, short enough, with an allowed scheme;
\* nvdService.js allows https:// and http://, cveService.ts https:// only
sanitizeUrl(h, url) ==
  IF url.type # "string" THEN NoUrl
  ELSE LET trimmed == Trim(url)
       IN IF SchemeLength(trimmed.scheme) + trimmed.rest > MAX_URL_LENGTH
          THEN NoUrl
          ELSE IF trimmed.scheme = "https://" THEN trimmed
          ELSE IF h = "desktop" /\ trimmed.scheme = "http://" THEN trimmed
          ELSE NoUrl

RECURSIVE KeepTruthy(_)
KeepTruthy(urls) ==
  IF urls = <<>> THEN <<>>
  ELSE IF Head(urls) = NoUrl THEN KeepTruthy(Tail(urls))
       ELSE <<Head(urls)>> \o KeepTruthy(Tail(urls))

\* (cve.references || []).slice(0, 5).map(sanitizeUrl).filter(ref => ref.url)
SanitizedRefs(h, refs) ==
  LET first == SubSeq(refs, 1, Min2(Len(refs), REFERENCES_KEPT))
  IN KeepTruthy([i \in 1..Len(first) |-> sanitizeUrl(h, first[i])])

\* the cpeMatch entries pushed: vulnerable, with a string as criteria
Vulnerable(matches) ==
  SelectSeq(matches, LAMBDA match : match.vulnerable /\ match.isString)

\* affectedProducts.slice(0, 50)
AffectedProducts(matches) ==
  LET pushed == Vulnerable(matches)
  IN SubSeq(pushed, 1, Min2(Len(pushed), PRODUCTS_KEPT))

\* n references taken from the pool in turn, starting after shift
RefList(n, shift) ==
  [i \in 1..n |-> UrlPool[((i + shift - 1) % Len(UrlPool)) + 1]]

\* n cpeMatch entries; every step-th one is flagged vulnerable, the third
\* has no string as criteria
MatchList(n, step) ==
  [i \in 1..n |-> [criteria |-> i, vulnerable |-> (i % step = 0),
                   isString |-> (i # 3)]]

RecordInit ==
  /\ host \in {"desktop", "extension"}
  /\ server = [k \in Keywords |-> HttpOk(ObjectBody(<<>>))]
  /\ ClientQuiet
  /\ KeywordIdle
  /\ ScanIdle
  /\ ParseIdle
  /\ notifications = TRUE
  /\ FolderIdle
  /\ WalkIdle
  /\ correlation = NoCorrelation
  /\ faults = NoFaults
  /\ \E n \in 0..MaxRefs, shift \in 0..(Len(UrlPool) - 1),
        m \in {0, 4, PRODUCTS_KEPT + 2, 2 * PRODUCTS_KEPT + 4}, step \in 1..2 :
       record = [NoRecord EXCEPT !.refs = RefList(n, shift),
                                 !.cpeMatch = MatchList(m, step)]

\* ---- parseCVE(item)
ParseCVE ==
  /\ record.st = "none"
  /\ record' = [record EXCEPT
                  !.st = "parsed",
                  !.references = SanitizedRefs(host, record.refs),
                  !.affectedProducts = AffectedProducts(record.cpeMatch)]
  /\ UNCHANGED <<clientVars, keywordVars, scanVars, parseVars, notifications,
                 folderVars, walkVars, correlation, faults>>

RecordNext == ParseCVE

RecordSpec == RecordInit /\ [][RecordNext]_vars

\* C20: every reference URL kept in a record uses the https:// scheme; a
\* record keeps at most 5 references and at most 50 affected-product
\* identifiers, taken only from the entries flagged vulnerable.
C20_HttpsOnlyAndCapped ==
  record.st = "parsed" =>
    /\ \A i \in 1..Len(record.references) :
         record.references[i].scheme = "https://"
    /\ Len(record.references) <= 5
    /\ Len(record.affectedProducts) <= 50
    /\ \A i \in 1..Len(record.affectedProducts) :
         \E j \in 1..Len(record.cpeMatch) :
           /\ record.cpeMatch[j] = record.affectedProducts[i]
           /\ record.cpeMatch[j].vulnerable

\* ------------------------------------------------------------------------
\* The manifest parser on the text of a file: the declarations of a
\* package.json, a go.sum and a Gemfile in the order they are written
\* (main-process/main.js 349-364, 512-546; dependencyScanner.ts 232-247,
\* 314-329).
\* ------------------------------------------------------------------------
\* declarations written in one file
MaxDecls == 3

\* the formats each host recognises among the three modelled
DeclFormats(h) ==
  IF h = "desktop" THEN {"package.json", "go.sum", "Gemfile"}
  ELSE {"package.json", "Gemfile"}

DeclVersions == {v \in VersionValues : v.type = "string"}

\* one declaration of the text: a key of one of the two dependency objects
\* of a package.json, a module line of a go.sum, a gem line of a Gemfile
Declarations ==
  [section : {"dependencies", "devDependencies"}, name : PackageNames,
   version : DeclVersions]

DeclTexts == UNION {[1..n -> Declarations] : n \in 0..MaxDecls}

\* a key and its value
Entry(d) == [name |-> d.name, version |-> d.version]

\* JSON.parse of an object whose text names a key more than once: the key
\* stays where it came first and holds the value it was given last
RECURSIVE JsonObject(_, _)
JsonObject(decls, object) ==
  IF decls = <<>> THEN object
  ELSE LET e == Entry(Head(decls))
       IN JsonObject(Tail(decls),
            IF e.name \in Names(object)
            THEN [object EXCEPT ![ValueOf(object, e.name)] = e]
            ELSE Append(object, e))

InSection(decls, section) ==
  SelectSeq(decls, LAMBDA d : d.section = section)

\* const pkg = JSON.parse(content)
JsonParse(decls) ==
  [kind |-> "object",
   dependencies |-> JsonObject(InSection(decls, "dependencies"), <<>>),
   devDependencies |-> JsonObject(InSection(decls, "devDependencies"), <<>>)]

\* case 'go.sum': a record for the first line of each module path, the
\* later lines of a path already in seen are passed over
RECURSIVE GoSumLines(_, _, _)
GoSumLines(lines, seen, dependencies) ==
  IF lines = <<>> THEN dependencies
  ELSE LET d == Head(lines)
       IN IF d.name \notin seen
          THEN GoSumLines(Tail(lines), seen \cup {d.name},
                 Append(dependencies,
                   [name |-> d.name, version |-> d.version.chars,
                    ecosystem |-> "go", type |-> "prod"]))
          ELSE GoSumLines(Tail(lines), seen, dependencies)

\* case 'Gemfile': a record for every gem line
GemfileLines(lines) ==
  [i \in 1..Len(lines) |->
     [name |-> lines[i].name, version |-> lines[i].version.chars,
      ecosystem |-> "rubygems", type |-> "prod"]]

\* parseDependencyFile on a readable file of one of the three formats
parseDeclarations(h, file) ==
  CASE file.kind = "package.json" ->
         PushEntries(h, allDeps(JsonParse(file.declared)),
                     JsonParse(file.declared), <<>>)
    [] file.kind = "go.sum" ->
         [st |-> "returned", failed |-> FALSE,
          dependencies |-> GoSumLines(file.declared, {}, <<>>)]
    [] OTHER ->
         [st |-> "returned", failed |-> FALSE,
          dependencies |-> GemfileLines(file.declared)]

DeclareInit ==
  /\ host \in {"desktop", "extension"}
  /\ server = [k \in Keywords |-> HttpOk(ObjectBody(<<>>))]
  /\ ClientQuiet
  /\ KeywordIdle
  /\ ScanIdle
  /\ manifest \in [kind : DeclFormats(host), declared : DeclTexts]
  /\ parsed = NotParsed
  /\ notifications = TRUE
  /\ FolderIdle
  /\ WalkIdle
  /\ correlation = NoCorrelation
  /\ record = NoRecord
  /\ faults = NoFaults

ParseDeclarations ==
  /\ parsed.st = "none"
  /\ parsed' = parseDeclarations(host, manifest)
  /\ UNCHANGED <<clientVars, keywordVars, scanVars, manifest, notifications,
                 folderVars, walkVars, correlation, record, faults>>

DeclareNext == ParseDeclarations

DeclareSpec == DeclareInit /\ [][DeclareNext]_vars

\* C21: for every recognized manifest format the parse returns one record
\* per declaration, in the order of the declarations; two declarations of
\* the same name in one file yield two records.
C21_OneRecordPerDeclaration ==
  parsed.st = "returned" =>
    /\ Len(parsed.dependencies) = Len(manifest.declared)
    /\ \A i \in 1..Len(parsed.dependencies) :
         parsed.dependencies[i].name = manifest.declared[i].name

\* ------------------------------------------------------------------------
\* The tree scanner with the failures of the file system: a directory that
\* readdir cannot list, a manifest that cannot be read or parsed, a manifest
\* over MAX_FILE_SIZE (main.js 227-233, 257-272, 338-346, 774-778;
\* dependencyScanner.ts 144-150, 171-184, 222-227).
\* ------------------------------------------------------------------------
\* failures of each kind in one scan
MaxFaults == 1

\* the scan ends with a rejected promise
ReaddirRejects(rest) ==
  /\ stack' = <<>>
  /\ scanResult' = [NoResult EXCEPT !.st = "failed"]

\* catch (err) { console.error(...); return null; }
ReaddirCaught(rest) == ReturnTo(rest, <<>>)

\* what makes parseDependencyFile fail or skip a manifest
ManifestFaults == {"unreadable", "oversized", "malformed"}

FaultInit == ScanInit

\* ---- readdir throws for the directory scanDir was called on
ReaddirThrows ==
  /\ stack # <<>>
  /\ Top.st = "reading"
  /\ faults.dirs < MaxFaults
  /\ faults' = [faults EXCEPT !.dirs = @ + 1]
  /\ ReaddirCaught(Below)
  /\ lastRead' = [depth |-> Top.depth, folders |-> foldersScanned,
                  files |-> filesScanned]
  /\ dirsRead' = dirsRead + 1
  /\ UNCHANGED <<filesScanned, foldersScanned, scanLimitReached, scans,
                 lastLoop, depthCuts>>
  /\ UNCHANGED <<clientVars, keywordVars, parseVars, notifications, folderVars,
                 walkVars, correlation, record>>

\* ---- the loop reaches a manifest that parseDependencyFile cannot read or
\* ---- parse, or skips for its size: the array it returns is pushed
ManifestFails(kind) ==
  /\ stack # <<>>
  /\ Top.st = "loop"
  /\ Top.hollow = 0
  /\ Top.dirs = 0
  /\ Top.manifests # <<>>
  /\ faults.files < MaxFaults
  /\ faults' = [faults EXCEPT !.files = @ + 1]
  /\ LET deps == parseDependencyFile(host, [NoManifest EXCEPT !.kind = kind])
     IN stack' = [stack EXCEPT ![Len(stack)] =
                    [@ EXCEPT !.manifests = Tail(@),
                              !.dependencyFiles =
                                 Append(@, Len(deps.dependencies))]]
  /\ UNCHANGED <<filesScanned, foldersScanned, scanLimitReached, scanResult,
                 scans, dirsRead, lastRead, lastLoop, depthCuts>>
  /\ UNCHANGED <<clientVars, keywordVars, parseVars, notifications, folderVars,
                 walkVars, correlation, record>>


FaultNext ==
  \/ ScanStart
  \/ ReaddirThrows
  \/ \E l \in Listings : Readdir(l)
  \/ ScanHollow
  \/ ScanChild
  \/ ScanManifest
  \/ \E kind \in ManifestFaults : ManifestFails(kind)
  \/ ScanReturn

FaultSpec == FaultInit /\ [][FaultNext]_vars

\* manifests recorded in a node and below it
RECURSIVE FilesIn(_)
FilesIn(node) ==
  Len(node.dependencyFiles)
    + SumSeq([i \in 1..Len(node.children) |-> FilesIn(node.children[i])])

\* manifests and packages the scan holds: in the frames in progress and in
\* the child nodes they collected, or in the result
FilesHeld(frames, result) ==
  IF result.st = "done"
  THEN IF result.tree = <<>> THEN 0 ELSE FilesIn(result.tree[1])
  ELSE SumSeq([i \in 1..Len(frames) |->
                 Len(frames[i].dependencyFiles)
                   + SumSeq([j \in 1..Len(frames[i].children) |->
                               FilesIn(frames[i].children[j])])])

PackagesHeld(frames, result) ==
  IF result.st = "done"
  THEN result.totalPackages
  ELSE SumSeq([i \in 1..Len(frames) |->
                 SumSeq(frames[i].dependencyFiles)
                   + SumSeq([j \in 1..Len(frames[i].children) |->
                               frames[i].children[j].totalPackages])])

Active == {c \in CallIds : calls[c].pc # "free"}

\* C23: per caller at most one top-level fetch is in flight.  Extension: at
\* most one invocation is unsettled, and a refresh requested while one is
\* loading starts none.  Desktop: at most one unsettled invocation is not
\* cancelled, it is the one of the controller held, and a cancelled
\* invocation has no request in flight.
C23_OneFetchInFlight ==
  /\ [](host = "extension" => Cardinality(Active) <= 1)
  /\ [](host = "desktop" =>
          /\ Cardinality({c \in Active : ~calls[c].aborted}) <= 1
          /\ \A c \in Active :
               IF calls[c].aborted THEN Pending(calls[c]) = {} ELSE c = current)
  /\ [][host = "extension" /\ isLoading =>
          \A c \in CallIds : calls[c].pc = "free" => calls'[c].pc = "free"]_vars

\* a desktop fetch was started while the fetch before it was waiting
\* between two batches, and cancelled it: both are unsettled
C23_Witness ==
  /\ host = "desktop"
  /\ \E c, d \in Active :
       /\ calls[c].aborted
       /\ calls[c].pc = "delay"
       /\ d = current
       /\ ~calls[d].aborted
       /\ calls[d].batches > 0

\* ------------------------------------------------------------------------
\* The remote limit the client is written for: 5 requests per 30 seconds
\* without an API key (nvdService.js 6, README "Rate Limits")
\* ------------------------------------------------------------------------
RATE_LIMIT == 5
RATE_WINDOW == 30000

\* the remote requests of an invocation issued in the window that starts
\* with its request i
InWindow(call, i) ==
  {j \in 1..Len(call.slots) :
     /\ call.slots[j].remote
     /\ call.slots[j].start >= call.slots[i].start
     /\ call.slots[j].start < call.slots[i].start + RATE_WINDOW}

\* C24: in any 30-second window one fetchCVEsForProducts invocation issues
\* at most 5 remote requests.
C24_WithinRemoteLimit ==
  \A c \in CallIds :
    \A i \in 1..Len(calls[c].slots) :
      calls[c].slots[i].remote =>
        Cardinality(InWindow(calls[c], i)) <= RATE_LIMIT

\* ------------------------------------------------------------------------
\* One keyword fetch over a cache that holds entries already: the entry of
\* the keyword is younger than CACHE_TTL, exactly as old, or older
\* (nvdService.js 82-94, 180-238; cveService.ts 40-57, 203-228)
\* ------------------------------------------------------------------------
\* what the entry written at time 0 for keyword 1 holds
OldData == ParseAll(<<ItemC>>)

OldEntry == [key |-> CacheKey(1, RESULTS_PER_PRODUCT), data |-> OldData,
             timestamp |-> 0]
OtherEntry == [key |-> CacheKey(2, RESULTS_PER_PRODUCT), data |-> <<>>,
               timestamp |-> 0]

AgedCaches == {<<OldEntry, OtherEntry>>, <<OtherEntry, OldEntry>>}

\* Date.now() when the fetch is made
AgedTimes == {CACHE_TTL - 1, CACHE_TTL, CACHE_TTL + 1}

AgedInit ==
  /\ host \in {"desktop", "extension"}
  /\ server = [k \in Keywords |-> HttpOk(ObjectBody(<<>>))]
  /\ now \in AgedTimes
  /\ cache \in AgedCaches
  /\ lastOk = [key \in {cache[i].key : i \in 1..Len(cache)} |-> 0]
  /\ calls = [c \in CallIds |-> FreeCall]
  /\ products = <<>>
  /\ cves = <<>>
  /\ isLoading = FALSE
  /\ error = "none"
  /\ seenCVEIds = {}
  /\ isFirstLoad = TRUE
  /\ lastFetchTime = 0
  /\ current = 0
  /\ done = [call |-> FreeCall, applied |-> FALSE, notified |-> <<>>]
  /\ mounted = TRUE
  /\ fetches = 0
  /\ exchange \in Exchanges
  /\ fetched = NotFetched
  /\ ScanIdle
  /\ AuxIdle

\* fetchCVEsForKeyword for keyword 1
AgedNext == FetchCVEsForKeyword(1)

AgedSpec == AgedInit /\ [][AgedNext]_vars

HoldsOld == \E i \in 1..Len(cache) : cache[i] = OldEntry

\* C25: a cache entry is served only while its age is strictly less than
\* CACHE_TTL.  A fetch that finds the entry of its key younger returns the
\* entry's data and leaves the cache alone; one that finds it aged CACHE_TTL
\* or more returns what the remote request yields and, on success, the entry
\* holds the new data and the time of the fetch.
C25_ServedOnlyWhileFresh ==
  fetched.st = "done" =>
    IF now - OldEntry.timestamp < CACHE_TTL
    THEN /\ fetched.ok
         /\ fetched.cves = OldData
         /\ HoldsOld
    ELSE LET o == KeywordOutcome(host, exchange)
         IN /\ fetched.ok = o.ok
            /\ fetched.cves = o.cves
            /\ o.ok =>
                 \E i \in 1..Len(cache) :
                   cache[i] = [key |-> OldEntry.key, data |-> o.cves,
                               timestamp |-> now]
            /\ ~o.ok => HoldsOld

\* the entry was found aged exactly CACHE_TTL and the answer has replaced it
C25_Witness ==
  /\ fetched.st = "done"
  /\ now = CACHE_TTL
  /\ fetched.ok
  /\ fetched.cves # <<>>
  /\ ~HoldsOld
  /\ \E i \in 1..Len(cache) :
       /\ cache[i].key = OldEntry.key
       /\ cache[i].timestamp = now
       /\ cache[i].data = fetched.cves

\* an exchange that is not a success: no answer, a status outside 2xx, a
\* body that is not JSON, a body that validateNVDResponse rejects
ExchangeFailed(x) ==
  \/ x.net # "ok"
  \/ ~(x.status >= 200 /\ x.status <= 299)
  \/ ~x.json
  \/ ~validateNVDResponse(x.data).ok

\* C26: only a successful keyword fetch writes to the cache: after a fetch
\* whose exchange failed every cache entry, a stale entry of the same key
\* included, is as it was.
C26_FailureLeavesCache ==
  fetched.st = "done" /\ ExchangeFailed(exchange) =>
    /\ cache \in AgedCaches
    /\ \A i \in 1..Len(cache) : cache[i].timestamp = 0

\* C27: under any interleaving of the folder handlers the store holds
\* scannedProjects and lastProjectsScan only while it holds projectsFolder;
\* a scan that returns after a clear writes nothing back.
C27_ScanKeptOnlyWithFolder ==
  store.projectsFolder = NoPath =>
    /\ store.scannedProjects = NoPath
    /\ store.lastProjectsScan = 0

\* ------------------------------------------------------------------------
\* The callers with the event loop's guarantees: a request in flight is
\* answered or times out, a timer that is due fires, time passes while a
\* timer is waited for
\* ------------------------------------------------------------------------
\* keyword 1 is answered with two records, keyword 2 with a server error
LiveInit ==
  /\ host \in {"desktop", "extension"}
  /\ server = [k \in Keywords |->
                 IF k = 1 THEN HttpOk(ObjectBody(<<ItemB, ItemA>>))
                 ELSE HttpStatus(500)]
  /\ ClientQuiet
  /\ KeywordIdle
  /\ ScanIdle
  /\ AuxIdle

\* no request is in flight: Respond is not enabled
NoPending == \A c \in CallIds : Pending(calls[c]) = {}

\* weak fairness of Respond, WF_vars(Respond), with ENABLED written out
RespondFair ==
  \/ []<>NoPending
  \/ []<><<\E c \in CallIds : \E i \in Pending(calls[c]) : Respond(c, i)>>_vars

\* weak fairness of DelayDone, which is enabled when a timer is due
DelayFair ==
  \/ []<>~TimerDue
  \/ []<><<\E c \in CallIds : DelayDone(c)>>_vars

\* TickDelay is enabled
TickReady ==
  /\ \E c \in CallIds : calls[c].pc = "delay"
  /\ ~TimerDue
  /\ now + REQUEST_DELAY <= MaxTime
  /\ \A p \in AllPending :
        now + REQUEST_DELAY - calls[p[1]].slots[p[2]].start <= REQUEST_TIMEOUT

\* weak fairness of TickDelay
TickFair ==
  \/ []<>~TickReady
  \/ []<><<TickDelay>>_vars

LiveSpec ==
  /\ LiveInit
  /\ [][ClientNext]_vars
  /\ RespondFair
  /\ DelayFair
  /\ TickFair

\* the modelled clock has no room for a further inter-batch delay
ClockStopped == now + REQUEST_DELAY > MaxTime

\* C28: the loading flag is eventually cleared: whenever isLoading is true
\* and the requests settle, it is false again later, whether the last
\* refresh succeeded, failed or was cancelled (the provider still mounted).
C28_LoadingEventuallyCleared ==
  isLoading ~> (~isLoading \/ ~mounted \/ ClockStopped)

\* the desktop flag is clear after a refresh cancelled its predecessor: the
\* cancelled invocation was the last to settle, the products are tracked
C28_Witness ==
  /\ host = "desktop"
  /\ mounted
  /\ ~isLoading
  /\ products # <<>>
  /\ done.call.aborted
  /\ \A c \in CallIds : calls[c].pc = "free"

\* C29: when the tracked product list changes, a fetch over the new list is
\* started in the same step and every fetch in flight over another list is
\* cancelled (an empty list empties the results at once).
C29_ChangeStartsFetch ==
  [][products' # products =>
       /\ \A c \in CallIds :
            calls'[c].pc # "free" /\ calls'[c].products # products'
              => calls'[c].aborted
       /\ IF products' = <<>>
          THEN cves' = <<>>
          ELSE \/ \E c \in CallIds : /\ calls'[c].pc # "free"
                                     /\ calls'[c].products = products'
                                     /\ ~calls'[c].aborted
               \/ /\ done' # done
                  /\ done'.call.products = products'
                  /\ done'.applied]_vars

\* ------------------------------------------------------------------------
\* The callers after their first load: the first load found no record, the
\* seen set is empty and every later record counts as new
\* ------------------------------------------------------------------------
SeenInit ==
  /\ host \in {"desktop", "extension"}
  /\ server \in [Keywords -> NotifyResponses]
  /\ now = 0
  /\ cache = <<>>
  /\ calls = [c \in CallIds |-> FreeCall]
  /\ products = <<>>
  /\ cves = <<>>
  /\ isLoading = FALSE
  /\ error = "none"
  /\ seenCVEIds = {}
  /\ isFirstLoad = FALSE
  /\ lastFetchTime = 0
  /\ current = 0
  /\ lastOk = <<>>
  /\ done = [call |-> FreeCall, applied |-> FALSE, notified |-> <<>>]
  /\ mounted = TRUE
  /\ fetches = 0
  /\ KeywordIdle
  /\ ScanIdle
  /\ AuxIdle

SeenSpec == SeenInit /\ [][ClientNext]_vars

\* an invocation has settled in this step
Settles ==
  \/ done' # done
  \/ \E c \in CallIds : calls[c].pc # "free" /\ calls'[c].pc = "free"

\* C30: a vulnerability id triggers a notification at most once: a record
\* is notified only while its id is not in the seen set, no id is notified
\* twice by one fetch, every id of a fetch whose results are taken over is
\* in the seen set afterwards, notified or not, and the seen set never
\* shrinks.
C30_NotifiedAtMostOnce ==
  /\ [][seenCVEIds \subseteq seenCVEIds']_vars
  /\ [][Settles =>
          /\ \A i \in 1..Len(done'.notified) :
               /\ done'.notified[i].id \notin seenCVEIds
               /\ done'.notified[i].id \in seenCVEIds'
               /\ \A j \in 1..Len(done'.notified) :
                    done'.notified[j].id = done'.notified[i].id => i = j
          /\ done'.applied => IdsOf(done'.call.result) \subseteq seenCVEIds']_vars

\* a second fetch has brought a HIGH record again that the fetch before it
\* notified: it is in the seen set and is not notified
C30_Witness ==
  /\ fetches = MaxFetches
  /\ done.applied
  /\ notifications
  /\ done.notified = <<>>
  /\ \E i \in 1..Len(done.call.result) :
       /\ done.call.result[i].severity \in {"HIGH", "CRITICAL"}
       /\ done.call.result[i].id \in seenCVEIds
====
